---- MODULE Spec2Model ----
(***************************************************************************)
(* Model of the trend monitor (src/trends): the keyword extractor and the  *)
(* analyzers of analyze.py over a batch of scraped items and a history of  *)
(* archived batches, with the configuration of config.py.                  *)
(*                                                                         *)
(* Text is a sequence of one-character strings over printable ASCII, so    *)
(* that lower-casing, punctuation stripping, splitting, substring search   *)
(* and the code-point order of sorted() are computed, not assumed.         *)
(* An item is [source, title, score, extra]; url, id, category and         *)
(* timestamp are carried through by the code unread and are left out.      *)
(* score is held in hundredths: make_item stores round(score, 2).          *)
(* A rational is a pair <<n, d>> with d > 0.                               *)
(***************************************************************************)
EXTENDS Integers, Sequences, FiniteSets, TLC

VARIABLES items, history, pc, gaps, velocity_items, niches, bridges,
          voids, expansions, relevant, interest_tags, calls, analysis_json,
          texts, keywords, candidates, results, fetched,
          data_dir, now, saved, max_files, archives,
          attempt, responses, slept, returned

\* the state of the scrape side (scrape.py, scrapers/base.py): results is the
\* dict run_all_scrapers builds, fetched what each scraper called so far
\* returned or raised; data_dir holds the files of DATA_DIR, names and
\* contents, now is the clock (minutes since 2026-01-01 00:00 UTC),
\* saved the batches passed to save_results so far, max_files the argument of
\* the last load_historical_scrapes and archives the names it chose; attempt
\* is the loop variable of safe_get, responses what its requests met so far,
\* slept the seconds it slept after each and returned what it returned
\* (<<resp>> for a response, <<>> for None)
get_state == <<attempt, responses, slept, returned>>

GetIdle ==
  /\ attempt = 0
  /\ responses = <<>>
  /\ slept = <<>>
  /\ returned = <<>>

io_state == <<results, fetched, data_dir, now, saved, max_files, archives, get_state>>

IoIdle ==
  /\ results = [sources |-> <<>>, all_items |-> <<>>]
  /\ fetched = <<>>
  /\ data_dir = <<>>
  /\ now = 0
  /\ saved = <<>>
  /\ max_files = 0
  /\ archives = <<>>
  /\ GetIdle

\* what the void detector, the relevance scorer, run_analysis and the keyword
\* extractor add to the state: expansions records the iterations of the void
\* detector's loop over the strong pairs, calls the analyzers run_analysis
\* has invoked, texts and keywords the arguments and results of
\* _extract_keywords, candidates the list an analyzer built before it sorts
\* and cuts it
analysis_state ==
  <<voids, expansions, relevant, interest_tags, calls, analysis_json, texts, keywords, candidates>>

later_state == <<analysis_state, io_state>>

vars == <<items, history, pc, gaps, velocity_items, niches, bridges, later_state>>

(***************************************************************************)
(* Characters                                                              *)
(***************************************************************************)
\* the printable ASCII characters in code-point order: Ascii[i] has code 31 + i
\* ("grave" stands for the character of code 96, which a string cannot hold)
Ascii ==
  <<
    " ", "!", "\"", "#", "$", "%", "&", "'", "(", ")", "*", "+", ",", "-", ".", "/", "0", "1",
    "2", "3", "4", "5", "6", "7", "8", "9", ":", ";", "<", "=", ">", "?", "@", "A", "B", "C",
    "D", "E", "F", "G", "H", "I", "J", "K", "L", "M", "N", "O", "P", "Q", "R", "S", "T", "U",
    "V", "W", "X", "Y", "Z", "[", "\\", "]", "^", "_", "grave", "a", "b", "c", "d", "e", "f", "g",
    "h", "i", "j", "k", "l", "m", "n", "o", "p", "q", "r", "s", "t", "u", "v", "w", "x", "y",
    "z", "{", "|", "}", "~"
  >>

AsciiChars == {Ascii[i] : i \in 1..Len(Ascii)}

OrdTable == [c \in AsciiChars |-> 31 + (CHOOSE i \in 1..Len(Ascii) : Ascii[i] = c)]

ord(c) == OrdTable[c]

chr(n) == Ascii[n - 31]

\* str.lower() on one character
Lower(c) == IF ord(c) >= 65 /\ ord(c) <= 90 THEN chr(ord(c) + 32) ELSE c

\* \s of the regular expressions, and the whitespace of strip() and split()
IsSpace(c) == c = " "

\* \w of the regular expressions
IsWord(c) ==
  \/ (ord(c) >= 48 /\ ord(c) <= 57)
  \/ (ord(c) >= 65 /\ ord(c) <= 90)
  \/ (ord(c) >= 97 /\ ord(c) <= 122)
  \/ c = "_"

(***************************************************************************)
(* Sequence helpers                                                        *)
(***************************************************************************)
Take(s, n) == IF Len(s) <= n THEN s ELSE SubSeq(s, 1, n)

Drop(s, n) == IF Len(s) <= n THEN <<>> ELSE SubSeq(s, n + 1, Len(s))

Range(s) == {s[i] : i \in 1..Len(s)}

Max(a, b) == IF a >= b THEN a ELSE b

\* str < str: lexicographic by code point
RECURSIVE StrLess(_, _)
StrLess(a, b) ==
  IF b = <<>> THEN FALSE
  ELSE IF a = <<>> THEN TRUE
  ELSE IF ord(Head(a)) # ord(Head(b)) THEN ord(Head(a)) < ord(Head(b))
  ELSE StrLess(Tail(a), Tail(b))

\* sorted(set of str): insertion into an ascending list
RECURSIVE InsertStr(_, _)
InsertStr(x, s) ==
  IF s = <<>> THEN <<x>>
  ELSE IF StrLess(x, Head(s)) THEN <<x>> \o s
  ELSE <<Head(s)>> \o InsertStr(x, Tail(s))

RECURSIVE SortedStrs(_)
SortedStrs(S) ==
  IF S = {} THEN <<>>
  ELSE LET x == CHOOSE y \in S : TRUE IN InsertStr(x, SortedStrs(S \ {x}))

\* needle in haystack, for str
IsSubstring(needle, hay) ==
  \E i \in 1..(Len(hay) - Len(needle) + 1) :
     SubSeq(hay, i, i + Len(needle) - 1) = needle

(***************************************************************************)
(* Text normalization (analyze.py, _normalize and _extract_keywords)       *)
(***************************************************************************)
StrLower(s) == [i \in 1..Len(s) |-> Lower(s[i])]

RECURSIVE LStrip(_)
LStrip(s) == IF s # <<>> /\ IsSpace(Head(s)) THEN LStrip(Tail(s)) ELSE s

RECURSIVE RStrip(_)
RStrip(s) ==
  IF s # <<>> /\ IsSpace(s[Len(s)]) THEN RStrip(SubSeq(s, 1, Len(s) - 1)) ELSE s

Strip(s) == RStrip(LStrip(s))

\* re.sub(r"[^\w\s]", " ", text)
SubNonWord(s) ==
  [i \in 1..Len(s) |-> IF IsWord(s[i]) \/ IsSpace(s[i]) THEN s[i] ELSE " "]

\* re.sub(r"\s+", " ", text)
RECURSIVE CollapseWs(_)
CollapseWs(s) ==
  IF s = <<>> THEN <<>>
  ELSE IF IsSpace(Head(s))
       THEN <<" ">> \o CollapseWs(LStrip(s))
       ELSE <<Head(s)>> \o CollapseWs(Tail(s))

_normalize(text) == CollapseWs(SubNonWord(Strip(StrLower(text))))

\* the first whitespace-delimited word of s, s not starting with whitespace
RECURSIVE FirstWord(_)
FirstWord(s) ==
  IF s = <<>> \/ IsSpace(Head(s)) THEN <<>>
  ELSE <<Head(s)>> \o FirstWord(Tail(s))

\* str.split()
RECURSIVE Split(_)
Split(s) ==
  LET t == LStrip(s) IN
  IF t = <<>> THEN <<>>
  ELSE LET w == FirstWord(t) IN <<w>> \o Split(Drop(t, Len(w)))

stop_words ==
  {
    <<"t","h","e">>, <<"a">>, <<"a","n">>, <<"i","s">>, <<"a","r","e">>, <<"w","a","s">>,
    <<"w","e","r","e">>, <<"b","e">>, <<"b","e","e","n">>, <<"b","e","i","n","g">>,
    <<"h","a","v","e">>, <<"h","a","s">>, <<"h","a","d">>, <<"d","o">>, <<"d","o","e","s">>,
    <<"d","i","d">>, <<"w","i","l","l">>, <<"w","o","u","l","d">>, <<"c","o","u","l","d">>,
    <<"s","h","o","u","l","d">>, <<"m","a","y">>, <<"m","i","g","h","t">>,
    <<"s","h","a","l","l">>, <<"c","a","n">>, <<"n","e","e","d">>, <<"d","a","r","e">>,
    <<"o","u","g","h","t">>, <<"u","s","e","d">>, <<"t","o">>, <<"o","f">>, <<"i","n">>,
    <<"f","o","r">>, <<"o","n">>, <<"w","i","t","h">>, <<"a","t">>, <<"b","y">>,
    <<"f","r","o","m">>, <<"a","s">>, <<"i","n","t","o">>, <<"t","h","r","o","u","g","h">>,
    <<"d","u","r","i","n","g">>, <<"b","e","f","o","r","e">>, <<"a","f","t","e","r">>,
    <<"a","b","o","v","e">>, <<"b","e","l","o","w">>, <<"b","e","t","w","e","e","n">>,
    <<"o","u","t">>, <<"o","f","f">>, <<"o","v","e","r">>, <<"u","n","d","e","r">>,
    <<"a","g","a","i","n">>, <<"f","u","r","t","h","e","r">>, <<"t","h","e","n">>,
    <<"o","n","c","e">>, <<"h","e","r","e">>, <<"t","h","e","r","e">>, <<"w","h","e","n">>,
    <<"w","h","e","r","e">>, <<"w","h","y">>, <<"h","o","w">>, <<"a","l","l">>,
    <<"b","o","t","h">>, <<"e","a","c","h">>, <<"f","e","w">>, <<"m","o","r","e">>,
    <<"m","o","s","t">>, <<"o","t","h","e","r">>, <<"s","o","m","e">>, <<"s","u","c","h">>,
    <<"n","o">>, <<"n","o","r">>, <<"n","o","t">>, <<"o","n","l","y">>, <<"o","w","n">>,
    <<"s","a","m","e">>, <<"s","o">>, <<"t","h","a","n">>, <<"t","o","o">>, <<"v","e","r","y">>,
    <<"j","u","s","t">>, <<"b","e","c","a","u","s","e">>, <<"b","u","t">>, <<"a","n","d">>,
    <<"o","r">>, <<"i","f">>, <<"w","h","i","l","e">>, <<"a","b","o","u","t">>, <<"u","p">>,
    <<"i","t">>, <<"i","t","s">>, <<"m","y">>, <<"y","o","u","r">>, <<"h","i","s">>,
    <<"h","e","r">>, <<"t","h","e","i","r">>, <<"o","u","r">>, <<"t","h","i","s">>,
    <<"t","h","a","t">>, <<"t","h","e","s","e">>, <<"t","h","o","s","e">>, <<"w","h","a","t">>,
    <<"w","h","i","c","h">>, <<"w","h","o">>, <<"w","h","o","m">>, <<"i">>, <<"y","o","u">>,
    <<"h","e">>, <<"s","h","e">>, <<"w","e">>, <<"t","h","e","y">>, <<"m","e">>,
    <<"h","i","m">>, <<"u","s">>, <<"t","h","e","m">>, <<"n","e","w">>, <<"g","e","t">>,
    <<"g","o","t">>, <<"l","i","k","e">>, <<"o","n","e">>
  }

_extract_keywords(text) ==
  LET words == Split(_normalize(text))
  IN  {words[i] : i \in {j \in 1..Len(words) : Len(words[j]) > 2 /\ words[j] \notin stop_words}}

(***************************************************************************)
(* Configuration (config.py)                                               *)
(***************************************************************************)
\* group name, member subreddits; in the order of the dict
SUBREDDITS ==
  <<
    <<<<"t","e","c","h">>,
      <<
        <<"t","e","c","h","n","o","l","o","g","y">>,
        <<"p","r","o","g","r","a","m","m","i","n","g">>,
        <<"m","a","c","h","i","n","e","l","e","a","r","n","i","n","g">>,
        <<"a","r","t","i","f","i","c","i","a","l">>, <<"w","e","b","d","e","v">>,
        <<"d","e","v","o","p","s">>, <<"d","a","t","a","s","c","i","e","n","c","e">>,
        <<"C","h","a","t","G","P","T">>
      >> >>,
    <<<<"b","u","s","i","n","e","s","s">>,
      <<
        <<"e","n","t","r","e","p","r","e","n","e","u","r">>,
        <<"s","t","a","r","t","u","p","s">>,
        <<"s","m","a","l","l","b","u","s","i","n","e","s","s">>,
        <<"m","a","r","k","e","t","i","n","g">>,
        <<"S","i","d","e","P","r","o","j","e","c","t">>,
        <<"p","a","s","s","i","v","e","_","i","n","c","o","m","e">>
      >> >>,
    <<<<"f","i","n","a","n","c","e">>,
      <<
        <<"i","n","v","e","s","t","i","n","g">>,
        <<"C","r","y","p","t","o","C","u","r","r","e","n","c","y">>,
        <<"w","a","l","l","s","t","r","e","e","t","b","e","t","s">>,
        <<"p","e","r","s","o","n","a","l","f","i","n","a","n","c","e">>,
        <<"s","t","o","c","k","s">>
      >> >>,
    <<<<"s","c","i","e","n","c","e">>,
      <<
        <<"s","c","i","e","n","c","e">>, <<"F","u","t","u","r","o","l","o","g","y">>,
        <<"s","p","a","c","e">>, <<"b","i","o","t","e","c","h">>
      >> >>,
    <<<<"l","i","f","e","s","t","y","l","e">>,
      <<
        <<"s","e","l","f","i","m","p","r","o","v","e","m","e","n","t">>,
        <<"p","r","o","d","u","c","t","i","v","i","t","y">>,
        <<"g","e","t","d","i","s","c","i","p","l","i","n","e","d">>,
        <<"L","i","f","e","P","r","o","T","i","p","s">>, <<"F","i","t","n","e","s","s">>
      >> >>,
    <<<<"c","r","e","a","t","i","v","e">>,
      <<
        <<"f","i","l","m","m","a","k","i","n","g">>,
        <<"v","i","d","e","o","g","r","a","p","h","y">>,
        <<"y","o","u","t","u","b","e","r","s">>, <<"N","e","w","T","u","b","e","r","s">>,
        <<"C","o","n","t","e","n","t","C","r","e","a","t","i","o","n">>
      >> >>
  >>

INTEREST_TAGS ==
  <<
    <<"A","I">>, <<"a","u","t","o","m","a","t","i","o","n">>,
    <<"c","o","n","t","e","n","t"," ","c","r","e","a","t","i","o","n">>,
    <<"p","a","s","s","i","v","e"," ","i","n","c","o","m","e">>, <<"S","a","a","S">>,
    <<"o","p","e","n"," ","s","o","u","r","c","e">>,
    <<"p","r","o","d","u","c","t","i","v","i","t","y">>,
    <<"c","r","e","a","t","o","r"," ","t","o","o","l","s">>,
    <<"m","a","c","h","i","n","e"," ","l","e","a","r","n","i","n","g">>,
    <<"s","i","d","e"," ","h","u","s","t","l","e">>, <<"n","o","-","c","o","d","e">>,
    <<"i","n","d","i","e"," ","h","a","c","k","i","n","g">>
  >>

\* WEIGHTS, as rationals
W_cross_platform_presence == <<3, 1>>

W_velocity == <<5, 2>>

W_low_competition == <<2, 1>>

W_community_bridge == <<2, 1>>

(***************************************************************************)
(* Numbers                                                                 *)
(* A Python float is modelled by the rational it stands for, except in     *)
(* the no-history velocity, which is kept as an IEEE double (below).       *)
(***************************************************************************)
Abs(x) == IF x < 0 THEN -x ELSE x

Pow10(k) == IF k = 0 THEN 1 ELSE IF k = 1 THEN 10 ELSE IF k = 2 THEN 100 ELSE 1000

\* floor(n / d), d > 0, n of either sign
FloorDiv(n, d) == IF n >= 0 THEN n \div d ELSE -((-n + d - 1) \div d)

\* round(q, k): the number of units of 10^-k nearest to q = <<n, d>>, a tie
\* between two neighbours going to the even one
PyRound(q, k) ==
  LET n == q[1] * Pow10(k)
      d == q[2]
      f == FloorDiv(n, d)
      r == n - f * d
  IN  IF 2 * r < d THEN f
      ELSE IF 2 * r > d THEN f + 1
      ELSE IF f % 2 = 0 THEN f ELSE f + 1

RatLess(p, q) == p[1] * q[2] < q[1] * p[2]

RatAdd(p, q) == <<p[1] * q[2] + q[1] * p[2], p[2] * q[2]>>

RatSub(p, q) == <<p[1] * q[2] - q[1] * p[2], p[2] * q[2]>>

RatMul(p, q) == <<p[1] * q[1], p[2] * q[2]>>

\* p / q, q > 0
RatDiv(p, q) == <<p[1] * q[2], p[2] * q[1]>>

RatMax(p, q) == IF RatLess(p, q) THEN q ELSE p

\* q is a binary fraction, a number that a double holds exactly (for the
\* small numerators and denominators of the model)
IsBinaryFraction(q) == (Abs(q[1]) * 4096) % q[2] = 0

\* q lies half way between two integers
IsTie(q) == (2 * q[1]) % q[2] = 0 /\ q[1] % q[2] # 0

\* round(x, 2) of a double x that is q hundredths up to the rounding errors
\* of its computation: the nearest integer to q, and at a tie, where those
\* errors decide, the upper neighbour if up and the lower if not
RoundHundredths(q, up) ==
  IF IsTie(q) THEN FloorDiv(q[1], q[2]) + (IF up THEN 1 ELSE 0) ELSE PyRound(<<q[1], q[2] * 100>>, 2)


(***************************************************************************)
(* IEEE-754 doubles, for the one place where the code keeps an unrounded   *)
(* product. A double is [exp, man]: man is the 53-bit significand written  *)
(* in base 2^13, most significant digit first, as five digits of which the *)
(* first is 1; the value is man * 2^exp. Zero is [exp |-> 0, man |-> <<>>].*)
(* Only values >= 0 and below 2^16 are needed.                             *)
(***************************************************************************)
\* the base of a digit, 2^13
DigitBase == 8192

Pow2(n) == IF n = 0 THEN 1 ELSE IF n = 1 THEN 2 ELSE IF n = 2 THEN 4 ELSE IF n = 3 THEN 8
           ELSE IF n = 4 THEN 16 ELSE IF n = 5 THEN 32 ELSE IF n = 6 THEN 64
           ELSE IF n = 7 THEN 128 ELSE IF n = 8 THEN 256 ELSE IF n = 9 THEN 512
           ELSE IF n = 10 THEN 1024 ELSE IF n = 11 THEN 2048 ELSE IF n = 12 THEN 4096
           ELSE 8192

FloatZero == [exp |-> 0, man |-> <<>>]

\* digits * k + c as digits of the same length, the first digit taking what
\* is carried out
RECURSIVE DigitsMulAdd(_, _, _)
DigitsMulAdd(d, k, c) ==
  IF Len(d) = 1 THEN <<d[1] * k + c>>
  ELSE LET n == Len(d)
           t == d[n] * k + c
       IN  DigitsMulAdd(SubSeq(d, 1, n - 1), k, t \div DigitBase) \o <<t % DigitBase>>

\* digits shifted right by s < 13 bits; the bits shifted out are d[Len(d)] % 2^s
DigitsShr(d, s) ==
  [i \in 1..Len(d) |->
     (d[i] \div Pow2(s)) + (IF i = 1 THEN 0 ELSE (d[i - 1] % Pow2(s)) * Pow2(13 - s))]

RECURSIVE DigitsToInt(_)
DigitsToInt(d) ==
  IF d = <<>> THEN 0 ELSE DigitBase * DigitsToInt(SubSeq(d, 1, Len(d) - 1)) + d[Len(d)]

\* [exp, man] for a significand in [2^52, 2^53], 2^53 being 2^52 one binade up
Renormalize(man, exp) ==
  IF man[1] = 2 THEN [exp |-> exp + 1, man |-> <<1, 0, 0, 0, 0>>]
  ELSE [exp |-> exp, man |-> man]

\* <<p', q', e>> with p / q = (p' / q') * 2^e and 1 <= p' / q' < 2
RECURSIVE Normalize(_, _, _)
Normalize(p, q, e) ==
  IF p >= 2 * q THEN Normalize(p, 2 * q, e + 1)
  ELSE IF p < q THEN Normalize(2 * p, q, e - 1)
  ELSE <<p, q, e>>

\* the first n base-2^13 digits of r / q after the point, r < q, and what is
\* left: <<digits, remainder>>
RECURSIVE DivDigits(_, _, _)
DivDigits(r, q, n) ==
  IF n = 0 THEN <<(<<>>), r>>
  ELSE LET nxt == DivDigits((r * DigitBase) % q, q, n - 1)
       IN  <<(<<(r * DigitBase) \div q>>) \o nxt[1], nxt[2]>>

\* the double nearest to p / q, a tie going to the even significand:
\* float("p/q"), and what round() returns for the decimal it has chosen
FloatOfRat(p, q) ==
  IF p = 0 THEN FloatZero
  ELSE LET nm  == Normalize(p, q, 0)
           d   == DivDigits(nm[1] - nm[2], nm[2], 4)
           man == <<1>> \o d[1]
           up  == 2 * d[2] > nm[2] \/ (2 * d[2] = nm[2] /\ man[5] % 2 = 1)
       IN  Renormalize(IF up THEN DigitsMulAdd(man, 1, 1) ELSE man, nm[3] - 52)

\* x * 1.5, correctly rounded: 3 * man exactly, which has 54 or 55 bits, cut
\* back to 53 bits
FloatMul15(x) ==
  IF x.man = <<>> THEN FloatZero
  ELSE LET t    == DigitsMulAdd(x.man, 3, 0)
           s    == IF t[1] < 4 THEN 1 ELSE 2
           kept == DigitsShr(t, s)
           out  == t[5] % Pow2(s)
           half == Pow2(s - 1)
           up   == out > half \/ (out = half /\ kept[5] % 2 = 1)
       IN  Renormalize(IF up THEN DigitsMulAdd(kept, 1, 1) ELSE kept, x.exp - 1 + s)

\* round(x, 3) for 2^-25 <= x < 2^20: the number of thousandths nearest to the
\* exact value of x, a tie going to the even one, then the double nearest to
\* that decimal
FloatRound3(x) ==
  IF x.man = <<>> THEN FloatZero
  ELSE LET t     == <<0>> \o DigitsMulAdd(x.man, 1000, 0)
           f     == -x.exp
           a     == f \div 13
           b     == f % 13
           whole == SubSeq(t, 1, 6 - a)
           low   == SubSeq(t, 7 - a, 6)
           int   == DigitsToInt(DigitsShr(whole, b))
           out   == (whole[6 - a] % Pow2(b)) * DigitBase + (IF a = 0 THEN 0 ELSE low[1])
           rest  == \E i \in 2..Len(low) : low[i] # 0
           half  == IF b = 0 THEN DigitBase \div 2 ELSE Pow2(b - 1) * DigitBase
           up    == out > half \/ (out = half /\ (rest \/ int % 2 = 1))
       IN  FloatOfRat(IF up THEN int + 1 ELSE int, 1000)

\* the sort key of a double: doubles compare as <<exp, man>>, zero lowest
FloatKey(x) == IF x.man = <<>> THEN <<-100000>> ELSE <<x.exp>> \o x.man

(***************************************************************************)
(* Items (scrapers/base.py, make_item)                                     *)
(***************************************************************************)
s_reddit == <<"r","e","d","d","i","t">>

s_hackernews == <<"h","a","c","k","e","r","n","e","w","s">>

s_youtube == <<"y","o","u","t","u","b","e">>

s_twitter == <<"t","w","i","t","t","e","r">>

s_google_trends == <<"g","o","o","g","l","e","_","t","r","e","n","d","s">>

k_subreddit == <<"s","u","b","r","e","d","d","i","t">>

\* score in hundredths, extra a set of <<key, value>> pairs
make_item(source, title, score, extra) ==
  [source |-> source, title |-> Strip(title), score |-> score, extra |-> extra]

\* dict.get(key, default) on extra
Get(extra, key, default) ==
  IF \E p \in extra : p[1] = key
  THEN (CHOOSE p \in extra : p[1] = key)[2]
  ELSE default

\* the sequences over S of length at most n
SeqsUpTo(S, n) == UNION {[1..m -> S] : m \in 0..n}

\* all orders in which a set can be iterated
RECURSIVE Orders(_)
Orders(S) ==
  IF S = {} THEN {<<>>}
  ELSE UNION {{<<x>> \o o : o \in Orders(S \ {x})} : x \in S}

\* tuple <= tuple over integers, as Python compares tuples
RECURSIVE LexLeq(_, _)
LexLeq(a, b) ==
  IF a = <<>> THEN TRUE
  ELSE IF b = <<>> THEN FALSE
  ELSE IF Head(a) # Head(b) THEN Head(a) < Head(b)
  ELSE LexLeq(Tail(a), Tail(b))

\* a for loop over lo..hi that appends f[i], a sequence, in turn
RECURSIVE ForEach(_, _, _)
ForEach(f, lo, hi) ==
  IF lo > hi THEN <<>>
  ELSE IF lo = hi THEN f[lo]
  ELSE LET mid == (lo + hi) \div 2
       IN  ForEach(f, lo, mid) \o ForEach(f, mid + 1, hi)

\* list.sort(key=..., reverse=True) on <<key, value>> pairs: descending by
\* key, pairs of equal keys in their original order. SortRanks gives the
\* place each pair is moved to.
SortRanks_LaterFirst(s) ==
  LET place == [i \in 1..Len(s) |->
        <<1 + Cardinality({j \in 1..Len(s) : ~LexLeq(s[j][1], s[i][1])})
            + Cardinality({j \in (i + 1)..Len(s) : s[j][1] = s[i][1]})>>]
  IN  ForEach(place, 1, Len(s))

SortRanks(s) ==
  LET place == [i \in 1..Len(s) |->
        <<1 + Cardinality({j \in 1..Len(s) : ~LexLeq(s[j][1], s[i][1])})
            + Cardinality({j \in 1..(i - 1) : s[j][1] = s[i][1]})>>]
  IN  ForEach(place, 1, Len(s))

SortDesc(s) ==
  LET ranks == SortRanks(s)
      at == [p \in 1..Len(s) |-> <<s[CHOOSE i \in 1..Len(s) : ranks[i] = p]>>]
  IN  ForEach(at, 1, Len(s))

Values(s) == [i \in 1..Len(s) |-> s[i][2]]

\* the items of a list that satisfy a test, in order
ItemsWith(its, kw) == SelectSeq(its, LAMBDA it : kw \in _extract_keywords(it.title))

\* the later state while an analyzer is run on its own: nothing detected,
\* the configured tags, no call of run_analysis, no analysis.json
AnalysisIdle ==
  /\ voids = <<>>
  /\ expansions = <<>>
  /\ relevant = <<>>
  /\ interest_tags = INTEREST_TAGS
  /\ calls = <<>>
  /\ analysis_json = <<>>
  /\ texts = <<>>
  /\ keywords = <<>>
  /\ candidates = <<>>

LaterIdle == AnalysisIdle /\ IoIdle

(***************************************************************************)
(* 1. Cross-platform gap detector (analyze.py, detect_cross_platform_gaps) *)
(***************************************************************************)
GapsTopK == 50

GapExamples == 5

\* by_source: the sources of the batch
SourcesOf(its) == {its[i].source : i \in 1..Len(its)}

\* the words of a title that are keywords, with their repetitions
KeywordWords(text) ==
  LET words == Split(_normalize(text))
  IN  SelectSeq(words, LAMBDA w : Len(w) > 2 /\ w \notin stop_words)

RECURSIVE CountIn(_, _)
CountIn(s, x) ==
  IF s = <<>> THEN 0 ELSE (IF Head(s) = x THEN 1 ELSE 0) + CountIn(Tail(s), x)

RECURSIVE PlatformCount_PerWord(_, _, _)
PlatformCount_PerWord(its, source, kw) ==
  IF its = <<>> THEN 0
  ELSE (IF Head(its).source = source THEN CountIn(KeywordWords(Head(its).title), kw) ELSE 0)
       + PlatformCount_PerWord(Tail(its), source, kw)

\* platform_keywords[source][kw]: the items of the source whose keywords hold kw
PlatformCount(its, source, kw) ==
  Cardinality({i \in 1..Len(its) :
                 its[i].source = source /\ kw \in _extract_keywords(its[i].title)})

PlatformKeywords(its, source) ==
  UNION {_extract_keywords(its[i].title) : i \in {j \in 1..Len(its) : its[j].source = source}}

text_platforms(its) == SourcesOf(its) \ {s_youtube}

youtube_keywords(its) == PlatformKeywords(its, s_youtube)

\* keyword_presence[kw]["platforms"]
PresencePlatforms(its, kw) ==
  {s \in text_platforms(its) : PlatformCount(its, s, kw) > 0}

RECURSIVE SumOver(_, _, _)
SumOver(its, S, kw) ==
  IF S = {} THEN 0
  ELSE LET s == CHOOSE x \in S : TRUE
       IN  PlatformCount(its, s, kw) + SumOver(its, S \ {s}, kw)

\* keyword_presence[kw]["total_count"]
PresenceCount(its, kw) == SumOver(its, text_platforms(its), kw)

\* the keys of keyword_presence
PresenceKeywords(its) == UNION {PlatformKeywords(its, s) : s \in text_platforms(its)}

GapExample(it) == [title |-> it.title, source |-> it.source, score |-> it.score]

GapQualifies_IgnoringYoutube(its, kw) ==
  /\ Cardinality(PresencePlatforms(its, kw)) >= 2
  /\ PresenceCount(its, kw) >= 3

GapQualifies(its, kw) ==
  /\ Cardinality(PresencePlatforms(its, kw)) >= 2
  /\ kw \notin youtube_keywords(its)
  /\ PresenceCount(its, kw) >= 3

GapRecord_PerMention(its, kw) ==
  LET platforms == PresencePlatforms(its, kw)
      count == PresenceCount(its, kw)
      examples == ItemsWith(its, kw)
  IN  [keyword |-> kw,
       present_on |-> SortedStrs(platforms),
       missing_from |-> <<s_youtube>>,
       mention_count |-> count,
       opportunity_score |->
         PyRound(<<count * W_cross_platform_presence[1], W_cross_platform_presence[2]>>, 2),
       examples |-> Take([i \in 1..Len(examples) |-> GapExample(examples[i])], GapExamples)]

GapRecord(its, kw) ==
  LET platforms == PresencePlatforms(its, kw)
      count == PresenceCount(its, kw)
      examples == ItemsWith(its, kw)
  IN  [keyword |-> kw,
       present_on |-> SortedStrs(platforms),
       missing_from |-> <<s_youtube>>,
       mention_count |-> count,
       opportunity_score |->
         PyRound(<<count * Cardinality(platforms) * W_cross_platform_presence[1],
                   W_cross_platform_presence[2]>>, 2),
       examples |-> Take([i \in 1..Len(examples) |-> GapExample(examples[i])], GapExamples)]

\* the list gaps before the sort, for the order in which keyword_presence is iterated
GapsInOrder(its, order) ==
  ForEach([i \in 1..Len(order) |->
             IF GapQualifies(its, order[i]) THEN <<GapRecord(its, order[i])>> ELSE <<>>],
          1, Len(order))

\* the list gaps before the sort of line 141, each record under its sort key
GapCandidates(its, order) ==
  LET unsorted == GapsInOrder(its, order)
  IN  [i \in 1..Len(unsorted) |-> <<<<unsorted[i].opportunity_score>>, unsorted[i]>>]

detect_cross_platform_gaps(its, order) ==
  Take(Values(SortDesc(GapCandidates(its, order))), GapsTopK)

\* the batches the gap detector is run on
MaxGapItems == 4

t_deepfake_ai == <<"D","e","e","p","f","a","k","e"," ","A","I","!">>

t_deepfake_news == <<"d","e","e","p","f","a","k","e","-","d","e","e","p","f","a","k","e"," ","n","e","w","s">>

GapSources == {s_reddit, s_hackernews, s_youtube}

GapTitles == {t_deepfake_ai, t_deepfake_news}

GapItems == {make_item(s, t, 100, {}) : s \in GapSources, t \in GapTitles}

\* a batch in which seven items of two platforms, each of another score,
\* hold one keyword, and one item holds none
GapScenarios ==
  {<<make_item(s_reddit, t_deepfake_ai, 1, {}), make_item(s_hackernews, t_deepfake_ai, 2, {}),
     make_item(s_reddit, <<"A","I","!">>, 3, {}), make_item(s_reddit, t_deepfake_ai, 4, {}),
     make_item(s_hackernews, t_deepfake_ai, 5, {}), make_item(s_reddit, t_deepfake_ai, 6, {}),
     make_item(s_reddit, t_deepfake_ai, 7, {}), make_item(s_hackernews, t_deepfake_ai, 8, {})>>}

InitGaps ==
  /\ items \in SeqsUpTo(GapItems, MaxGapItems) \cup GapScenarios
  /\ history = <<>>
  /\ pc = "gaps"
  /\ gaps = <<>>
  /\ velocity_items = <<>>
  /\ niches = <<>>
  /\ bridges = <<>>
  /\ LaterIdle

DetectCrossPlatformGaps ==
  /\ pc = "gaps"
  /\ \E order \in Orders(PresenceKeywords(items)) :
        gaps' = detect_cross_platform_gaps(items, order)
  /\ pc' = "gaps_done"
  /\ UNCHANGED <<items, history, velocity_items, niches, bridges, later_state>>

NextGaps == DetectCrossPlatformGaps

SpecGaps == InitGaps /\ [][NextGaps]_vars

(***************************************************************************)
(* Claims about the gap detector                                           *)
(***************************************************************************)
Keywords(it) == _extract_keywords(it.title)

\* the non-youtube items of the batch whose keyword set holds kw
DiscussionItemsWith(kw) ==
  {i \in 1..Len(items) : items[i].source # s_youtube /\ kw \in Keywords(items[i])}

YoutubeItemsWith(kw) ==
  {i \in 1..Len(items) : items[i].source = s_youtube /\ kw \in Keywords(items[i])}

BatchKeywords == UNION {Keywords(items[i]) : i \in 1..Len(items)}

GapKeywords == {gaps[i].keyword : i \in 1..Len(gaps)}

\* C1: a keyword is in the untruncated output of detect_cross_platform_gaps
\* iff it comes from items of at least 2 distinct non-youtube sources, at
\* least 3 non-youtube items hold it and no youtube item holds it; every
\* returned gap is absent from the youtube keywords and has 2 or more
\* entries in present_on.
C1_GapIff ==
  pc = "gaps_done" =>
    /\ Len(gaps) < GapsTopK =>
         \A kw \in BatchKeywords \cup GapKeywords :
            kw \in GapKeywords <=>
              /\ Cardinality({items[i].source : i \in DiscussionItemsWith(kw)}) >= 2
              /\ Cardinality(DiscussionItemsWith(kw)) >= 3
              /\ YoutubeItemsWith(kw) = {}
    /\ \A i \in 1..Len(gaps) :
         /\ YoutubeItemsWith(gaps[i].keyword) = {}
         /\ Len(gaps[i].present_on) >= 2

\* a keyword is returned as a gap while another keyword of three discussion
\* items on two platforms is kept out by a youtube item
C1_Witness ==
  /\ pc = "gaps_done"
  /\ Len(gaps) >= 1
  /\ \E kw \in BatchKeywords \ GapKeywords :
        /\ Cardinality({items[i].source : i \in DiscussionItemsWith(kw)}) >= 2
        /\ Cardinality(DiscussionItemsWith(kw)) >= 3
        /\ YoutubeItemsWith(kw) # {}

\* C2: mention_count is the number of non-youtube items whose keyword set
\* holds the keyword, an item counting once; present_on is the ascending,
\* duplicate-free list of exactly the non-youtube sources of those items.
C2_GapCounts ==
  pc = "gaps_done" =>
    \A i \in 1..Len(gaps) :
       LET g == gaps[i] IN
       /\ g.mention_count = Cardinality(DiscussionItemsWith(g.keyword))
       /\ Range(g.present_on) = {items[j].source : j \in DiscussionItemsWith(g.keyword)}
       /\ \A a, b \in 1..Len(g.present_on) :
             a < b => StrLess(g.present_on[a], g.present_on[b])

k_deepfake == <<"d","e","e","p","f","a","k","e">>

\* two reddit items and one hackernews item hold "deepfake", one of them
\* twice in its title: mention_count 3 on [hackernews, reddit]
C2_Witness ==
  /\ pc = "gaps_done"
  /\ \E i \in 1..Len(gaps) :
        /\ gaps[i].keyword = k_deepfake
        /\ gaps[i].mention_count = 3
        /\ gaps[i].present_on = <<s_hackernews, s_reddit>>
  /\ Cardinality({j \in 1..Len(items) : items[j].source = s_reddit}) = 2
  /\ \E j \in 1..Len(items) : items[j].title = t_deepfake_news

\* the places in the batch of the items whose keyword set holds kw
Holding(kw) == {j \in 1..Len(items) : kw \in _extract_keywords(items[j].title)}

\* the n-th of them in batch order
NthHolding(kw, n) ==
  CHOOSE j \in Holding(kw) : Cardinality({h \in Holding(kw) : h < j}) = n - 1

\* C23: for every gap result, opportunity_score is
\* round(mention_count * len(present_on) * W_cross, 2) with W_cross the
\* weight "cross_platform_presence", and examples holds at most 5 entries,
\* each the title, source and score of an item of the batch whose keyword
\* set holds the gap keyword, in the order of the batch.
C23_GapScore ==
  pc = "gaps_done" =>
    \A i \in 1..Len(gaps) :
       LET g == gaps[i] IN
       /\ g.opportunity_score =
            PyRound(<<g.mention_count * Len(g.present_on) * W_cross_platform_presence[1],
                      W_cross_platform_presence[2]>>, 2)
       /\ Len(g.examples) <= 5
       /\ Len(g.examples) <= Cardinality(Holding(g.keyword))
       /\ \A n \in 1..Len(g.examples) :
             LET it == items[NthHolding(g.keyword, n)]
             IN  g.examples[n] = [title |-> it.title, source |-> it.source, score |-> it.score]

\* seven items on two platforms hold "deepfake": the gap scores
\* 7 * 2 * 3.0 = 42.0 and lists the first five of them, passing over the
\* item without the keyword
C23_Witness ==
  /\ pc = "gaps_done"
  /\ Len(items) = 8
  /\ Len(gaps) = 1
  /\ gaps[1].keyword = k_deepfake
  /\ gaps[1].mention_count = 7
  /\ gaps[1].present_on = <<s_hackernews, s_reddit>>
  /\ gaps[1].opportunity_score = 4200
  /\ [n \in 1..Len(gaps[1].examples) |-> gaps[1].examples[n].score] = <<1, 2, 4, 5, 6>>

(***************************************************************************)
(* 2. Velocity scoring (analyze.py, calculate_velocity)                    *)
(***************************************************************************)
VelocityTopK == 50

\* a scrape as it is archived: only all_items is read here
Snapshot(its) == [all_items |-> its]

\* [_extract_keywords(item["title"]) for item in its]
KeywordSets(its) ==
  LET kws == [i \in 1..Len(its) |-> <<_extract_keywords(its[i].title)>>] IN ForEach(kws, 1, Len(its))

\* a Counter updated with each of the keyword sets: the number of sets that
\* hold kw (0 for a keyword that is not a key)
CounterOf(sets, kw) == Cardinality({i \in 1..Len(sets) : kw \in sets[i]})

\* history[1:]
HistoryTail_All(hist) == hist

HistoryTail(hist) == Tail(hist)

\* the items of history[1:], snapshot after snapshot
RECURSIVE AllItems(_)
AllItems(snaps) ==
  IF snaps = <<>> THEN <<>> ELSE Head(snaps).all_items \o AllItems(Tail(snaps))

num_historical_Len(hist) == Len(hist)

num_historical(hist) == Max(Len(hist) - 1, 1)

\* keyword_velocity[kw] for current_keywords[kw] = current_count and
\* historical_keywords[kw] = hist_count over num snapshots
keyword_velocity(current_count, hist_count, num) ==
  LET hist_avg == <<hist_count, num>>
  IN  IF RatLess(<<0, 1>>, hist_avg)
      THEN RatDiv(RatSub(<<current_count, 1>>, hist_avg), hist_avg)
      ELSE <<current_count * 2, 1>>

\* sum(keyword_velocity.get(k, 0) for k in kws)
RECURSIVE SumVelocity(_, _, _, _)
SumVelocity(kws, cur, old, num) ==
  IF kws = {} THEN <<0, 1>>
  ELSE LET k == CHOOSE x \in kws : TRUE
       IN  RatAdd(keyword_velocity(CounterOf(cur, k), CounterOf(old, k), num),
                  SumVelocity(kws \ {k}, cur, old, num))

\* avg_velocity of an item with the non-empty keyword set kws
avg_velocity(kws, cur, old, num) ==
  RatDiv(SumVelocity(kws, cur, old, num), <<Cardinality(kws), 1>>)

\* the double avg_velocity can differ from the double nearest the exact
\* mean: an average count / num that is not a binary fraction is rounded
\* before it is subtracted and divided by, and rounded keyword velocities
\* are rounded again when added
Inexact(kws, cur, old, num) ==
  \/ \E k \in kws : /\ CounterOf(old, k) > 0
                    /\ ~IsBinaryFraction(<<CounterOf(old, k), num>>)
  \/ /\ Cardinality(kws) > 1
     /\ \E k \in kws :
           ~IsBinaryFraction(keyword_velocity(CounterOf(cur, k), CounterOf(old, k), num))

\* avg_velocity > t for the double avg_velocity of exact value v; above: the
\* rounding errors have left the double above v
Exceeds(v, t, above) == RatLess(t, v) \/ (above /\ v[1] * t[2] = t[1] * v[2])

VelocityLabel_Inclusive(v, above) ==
  IF ~RatLess(v, <<2, 1>>) THEN "exploding"
  ELSE IF ~RatLess(v, <<1, 2>>) THEN "rising"
  ELSE IF ~RatLess(v, <<-1, 5>>) THEN "stable"
  ELSE "declining"

VelocityLabel(v, above) ==
  IF Exceeds(v, <<2, 1>>, above) THEN "exploding"
  ELSE IF Exceeds(v, <<1, 2>>, above) THEN "rising"
  ELSE IF Exceeds(v, <<-1, 5>>, above) THEN "stable"
  ELSE "declining"

\* item["score"] * WEIGHTS["velocity"] * max(avg_velocity, 0.1), in hundredths
CombinedValue_NoFloor(it, v) == RatMul(RatMul(<<it.score, 1>>, W_velocity), v)

CombinedValue(it, v) == RatMul(RatMul(<<it.score, 1>>, W_velocity), RatMax(v, <<1, 10>>))

\* the record appended for an item in history mode; velocity in thousandths,
\* base_score and combined_score in hundredths
VelocityRecord(it, v, above, up) ==
  [title |-> it.title,
   source |-> it.source,
   base_score |-> it.score,
   velocity |-> PyRound(v, 3),
   velocity_label |-> VelocityLabel(v, above),
   combined_score |-> RoundHundredths(CombinedValue(it, v), up)]

\* the loop over the items, cur[i] being the keyword set of its[i]; above:
\* the keyword sets whose double mean lies above its exact value; ties: the
\* items whose combined score at a tie goes up
VelocityRecords(its, cur, old, num, above, ties) ==
  LET rec == [i \in 1..Len(its) |->
                IF cur[i] = {} THEN <<>>
                ELSE <<VelocityRecord(its[i], avg_velocity(cur[i], cur, old, num),
                                      cur[i] \in above /\ Inexact(cur[i], cur, old, num),
                                      its[i] \in ties)>>]
  IN  ForEach(rec, 1, Len(its))

\* item.get("score", 0) * 1.5 on the double that score is
ProxyVelocity_Rounded(it) == FloatRound3(FloatMul15(FloatOfRat(it.score, 100)))

ProxyVelocity(it) == FloatMul15(FloatOfRat(it.score, 100))

\* {**item, "velocity": ..., "velocity_label": "new"}
ProxyRecord(it) ==
  [title |-> it.title,
   source |-> it.source,
   score |-> it.score,
   extra |-> it.extra,
   velocity |-> ProxyVelocity(it),
   velocity_label |-> "new"]

ProxyKeyed(its) ==
  LET keyed == [i \in 1..Len(its) |->
                  LET r == ProxyRecord(its[i]) IN <<<<FloatKey(r.velocity), r>>>>]
  IN  ForEach(keyed, 1, Len(its))

\* the list velocity_items before the sort of line 161 or 219, each record
\* under its sort key
VelocityCandidates(its, hist, above, ties) ==
  IF hist = <<>>
  THEN ProxyKeyed(its)
  ELSE LET cur   == KeywordSets(its)
           old   == KeywordSets(AllItems(HistoryTail(hist)))
           recs  == VelocityRecords(its, cur, old, num_historical(hist), above, ties)
           keyed == [i \in 1..Len(recs) |-> <<<<<<recs[i].velocity>>, recs[i]>>>>]
       IN  ForEach(keyed, 1, Len(recs))

calculate_velocity(its, hist, above, ties) ==
  Take(Values(SortDesc(VelocityCandidates(its, hist, above, ties))), VelocityTopK)

\* the keyword sets whose exact mean is a threshold of the labels while the
\* double mean need not be
InexactAtThreshold(its, cur, old, num) ==
  {cur[i] : i \in {j \in 1..Len(its) :
     /\ cur[j] # {}
     /\ Inexact(cur[j], cur, old, num)
     /\ LET v == avg_velocity(cur[j], cur, old, num)
        IN  \E t \in {<<2, 1>>, <<1, 2>>, <<-1, 5>>} : v[1] * t[2] = t[1] * v[2]}}

\* the items whose combined score is a tie between two hundredths
CombinedTies(its, cur, old, num) ==
  {its[i] : i \in {j \in 1..Len(its) :
     cur[j] # {} /\ IsTie(CombinedValue(its[j], avg_velocity(cur[j], cur, old, num)))}}

\* what a call can return
VelocityOutcomes(its, hist, cur, old) ==
  IF hist = <<>> THEN {calculate_velocity(its, hist, {}, {})}
  ELSE {calculate_velocity(its, hist, above, ties) :
          above \in SUBSET InexactAtThreshold(its, cur, old, num_historical(hist)),
          ties \in SUBSET CombinedTies(its, cur, old, num_historical(hist))}

\* the batches and histories the velocity scorer is run on
MaxVelItems == 3

MaxHistory == 3

t_gadgetx == <<"G","a","d","g","e","t","X">>

t_gadgetx_widget == <<"g","a","d","g","e","t","x"," ","w","i","d","g","e","t">>

i_gadgetx == make_item(s_hackernews, t_gadgetx, 5, {})

i_widget == make_item(s_hackernews, t_gadgetx_widget, 100, {})

i_nokeywords == make_item(s_twitter, <<"T","h","e"," ","n","e","w"," ","o","n","e">>, 7, {})

i_launch == make_item(s_twitter, <<"L","a","u","n","c","h"," ","d","a","y">>, 3, {})

i_quantum == make_item(s_reddit, <<"Q","u","a","n","t","u","m">>, 20, {})

VelItems == {i_gadgetx, i_widget, i_nokeywords}

Rep(n, x) == [i \in 1..n |-> x]

\* a keyword that is new beside one that is not, larger batches (the counts
\* 5, 4 and 3 of a keyword against 1, 5 and 2 in the history), a keyword
\* held once now and 2001 times in the snapshot that counts, and batches
\* longer than the 50 that are returned
VelScenarios ==
  {<<Rep(5, i_gadgetx), <<Snapshot(<<>>), Snapshot(<<i_gadgetx>>)>> >>,
   <<<<i_gadgetx>>, <<Snapshot(<<>>), Snapshot(Rep(2001, i_gadgetx))>> >>,
   <<<<i_widget, i_gadgetx>>, <<Snapshot(<<>>), Snapshot(<<i_gadgetx>>)>> >>,
   <<<<i_widget, i_nokeywords>>, <<Snapshot(<<i_widget>>), Snapshot(<<i_gadgetx>>), Snapshot(<<>>)>> >>,
   <<Rep(4, i_gadgetx) \o Rep(3, i_launch) \o <<i_quantum>>,
     <<Snapshot(<<>>), Snapshot(Rep(5, i_gadgetx) \o Rep(2, i_launch))>> >>}
  \cup {<<pre \o Rep(VelocityTopK, i_launch) \o suf, h>> :
          pre \in SeqsUpTo(VelItems, 1), suf \in SeqsUpTo(VelItems, 1),
          h \in {<<>>, <<Snapshot(<<>>), Snapshot(<<i_gadgetx>>)>>}}

InitVelocity ==
  /\ \E input \in
         (SeqsUpTo(VelItems, MaxVelItems)
            \X SeqsUpTo({Snapshot(<<>>), Snapshot(<<i_gadgetx, i_widget>>)}, MaxHistory))
         \cup VelScenarios :
       items = input[1] /\ history = input[2]
  /\ pc = "velocity"
  /\ gaps = <<>>
  /\ velocity_items = <<>>
  /\ niches = <<>>
  /\ bridges = <<>>
  /\ LaterIdle

CalculateVelocity ==
  /\ pc = "velocity"
  /\ velocity_items' \in VelocityOutcomes(items, history, KeywordSets(items),
                                         KeywordSets(AllItems(HistoryTail(history))))
  /\ pc' = "velocity_done"
  /\ UNCHANGED <<items, history, gaps, niches, bridges, later_state>>

NextVelocity == CalculateVelocity

SpecVelocity == InitVelocity /\ [][NextVelocity]_vars

(***************************************************************************)
(* Claims about the velocity scorer                                        *)
(***************************************************************************)
Min(a, b) == IF a <= b THEN a ELSE b

Occurrences(s, x) == Cardinality({i \in 1..Len(s) : s[i] = x})

\* the input item a record of the no-history mode was made from
AsItem(r) == [source |-> r.source, title |-> r.title, score |-> r.score, extra |-> r.extra]

OutItems == [i \in 1..Len(velocity_items) |-> AsItem(velocity_items[i])]

\* the returned list holds input items, and an input item is left out only
\* when 50 are returned and none of them has a lower velocity
C3_TopOfBatch ==
  /\ Len(velocity_items) = Min(Len(items), VelocityTopK)
  /\ \A it \in Range(items) \cup Range(OutItems) :
       /\ Occurrences(OutItems, it) <= Occurrences(items, it)
       /\ Occurrences(OutItems, it) < Occurrences(items, it) =>
            \A j \in 1..Len(velocity_items) :
               LexLeq(FloatKey(FloatMul15(FloatOfRat(it.score, 100))),
                      FloatKey(velocity_items[j].velocity))
  /\ \A a, b \in 1..Len(velocity_items) :
       a < b => LexLeq(FloatKey(velocity_items[b].velocity), FloatKey(velocity_items[a].velocity))

\* C3 as stated: with an empty history every input item is a candidate,
\* every output item has the label "new" and velocity == round(score * 1.5, 3),
\* and the output is the 50 candidates of highest velocity, descending.
C3_Original ==
  (pc = "velocity_done" /\ history = <<>>) =>
    /\ C3_TopOfBatch
    /\ \A i \in 1..Len(velocity_items) :
         /\ velocity_items[i].velocity_label = "new"
         /\ velocity_items[i].velocity =
              FloatRound3(FloatMul15(FloatOfRat(velocity_items[i].score, 100)))

\* C3, amended: the velocity is the double product score * 1.5 itself, not
\* rounded; round(velocity, 3) is the decimal score * 1.5. The rest as stated.
C3_ProxyVelocity ==
  (pc = "velocity_done" /\ history = <<>>) =>
    /\ C3_TopOfBatch
    /\ \A i \in 1..Len(velocity_items) :
         /\ velocity_items[i].velocity_label = "new"
         /\ velocity_items[i].velocity = FloatMul15(FloatOfRat(velocity_items[i].score, 100))
         /\ FloatRound3(velocity_items[i].velocity) =
              FloatOfRat(15 * velocity_items[i].score, 1000)

\* 52 items without history: 50 are returned, among them an item without
\* keywords and an item whose product is not the double of a 3-place decimal
C3_Witness ==
  /\ pc = "velocity_done"
  /\ history = <<>>
  /\ Len(items) > VelocityTopK
  /\ Len(velocity_items) = VelocityTopK
  /\ \E i \in 1..Len(velocity_items) : Keywords(velocity_items[i]) = {}
  /\ \E i \in 1..Len(velocity_items) :
        velocity_items[i].velocity # FloatRound3(velocity_items[i].velocity)

\* the keyword sets of the snapshots from index s on
RECURSIVE SnapshotSetsFrom(_)
SnapshotSetsFrom(s) ==
  IF s > Len(history) THEN <<>>
  ELSE KeywordSets(history[s].all_items) \o SnapshotSetsFrom(s + 1)

\* (c - h) / h when h > 0 and c * 2.0 otherwise, for c holders of kw among
\* cur and h = (holders among old) / max(len(history) - 1, 1)
SpecKeywordVelocity(kw, cur, old) ==
  LET c == Cardinality({i \in 1..Len(cur) : kw \in cur[i]})
      n == IF Len(history) - 1 > 1 THEN Len(history) - 1 ELSE 1
      h == <<Cardinality({i \in 1..Len(old) : kw \in old[i]}), n>>
  IN  IF h[1] > 0 THEN <<(c * h[2] - h[1]) * h[2], h[1] * h[2]>> ELSE <<2 * c, 1>>

RECURSIVE SpecSum(_, _, _)
SpecSum(kws, cur, old) ==
  IF kws = {} THEN <<0, 1>>
  ELSE LET k == CHOOSE x \in kws : TRUE
           v == SpecKeywordVelocity(k, cur, old)
           r == SpecSum(kws \ {k}, cur, old)
       IN  <<v[1] * r[2] + r[1] * v[2], v[2] * r[2]>>

\* the mean of the velocities of the keywords kws
SpecMeanVelocity(kws, cur, old) ==
  LET t == SpecSum(kws, cur, old) IN <<t[1], t[2] * Cardinality(kws)>>

\* the records of title t carry the velocity v, to 3 places
VelocityIs(t, v) ==
  \A i \in 1..Len(velocity_items) :
     velocity_items[i].title = t => velocity_items[i].velocity = PyRound(v, 3)

\* cur and old: the keyword sets of the items and of the snapshots after the
\* first
HistoryVelocity(cur, old) ==
  LET withkw == {i \in 1..Len(items) : cur[i] # {}}
  IN  /\ Len(velocity_items) = Min(Cardinality(withkw), VelocityTopK)
      /\ \A t \in {velocity_items[i].title : i \in 1..Len(velocity_items)} :
           /\ \E i \in withkw : items[i].title = t
           /\ VelocityIs(t, SpecMeanVelocity(_extract_keywords(t), cur, old))

\* C4: with a history, the average of a keyword is its count over
\* history[1:] divided by max(len(history) - 1, 1); its velocity is
\* (c - h) / h when h > 0 and c * 2.0 otherwise; an item's velocity is the
\* mean over its keywords (returned to 3 places); items without keywords
\* are not in the output.
C4_HistoryVelocity ==
  (pc = "velocity_done" /\ history # <<>>) =>
    HistoryVelocity(KeywordSets(items), SnapshotSetsFrom(2))

\* "gadgetx" 5 times now and once in the one snapshot that counts: 4.0
C4_Witness ==
  /\ pc = "velocity_done"
  /\ Len(history) = 2
  /\ Len(items) = 5
  /\ \E i \in 1..Len(velocity_items) :
        /\ velocity_items[i].title = i_gadgetx.title
        /\ velocity_items[i].velocity = 4000
        /\ velocity_items[i].velocity_label = "exploding"

\* q is held exactly by a double
SpecBinary(q) == \E e \in 0..12 : (Abs(q[1]) * (2 ^ e)) % q[2] = 0

\* the doubles of the mean of kws are rounded more than once: an average that
\* is not a binary fraction is rounded and then subtracted and divided by, or
\* rounded keyword velocities are added
SpecRoundedTwice(kws, cur, old) ==
  LET n == IF Len(history) - 1 > 1 THEN Len(history) - 1 ELSE 1
      h(k) == Cardinality({i \in 1..Len(old) : k \in old[i]})
  IN  \/ \E k \in kws : h(k) > 0 /\ ~SpecBinary(<<h(k), n>>)
      \/ Cardinality(kws) > 1 /\ \E k \in kws : ~SpecBinary(SpecKeywordVelocity(k, cur, old))

\* the records of title t carry the label of the mean v, or, when the
\* doubles may lie beside v, the label of the other side of a threshold
LabelIs(t, v, rounded) ==
  LET label == IF v[1] > 2 * v[2] THEN "exploding"
               ELSE IF 2 * v[1] > v[2] THEN "rising"
               ELSE IF 5 * v[1] > -v[2] THEN "stable"
               ELSE "declining"
      beside == IF v[1] = 2 * v[2] THEN "exploding"
                ELSE IF 2 * v[1] = v[2] THEN "rising"
                ELSE IF 5 * v[1] = -v[2] THEN "stable"
                ELSE label
  IN  \E l \in {label} \cup (IF rounded THEN {beside} ELSE {}) :
         \A i \in 1..Len(velocity_items) :
            velocity_items[i].title = t => velocity_items[i].velocity_label = l

Labels(cur, old) ==
  \A t \in {velocity_items[i].title : i \in 1..Len(velocity_items)} :
     LabelIs(t, SpecMeanVelocity(_extract_keywords(t), cur, old),
             SpecRoundedTwice(_extract_keywords(t), cur, old))

\* C5: with a history, the label follows from the unrounded mean velocity v,
\* a double: v > 2.0 exploding, else v > 0.5 rising, else v > -0.2 stable,
\* else declining, so that v equal to a threshold takes the lower label,
\* and every item has one label. v is the exact mean where its doubles are
\* exact or rounded once; where they are rounded more than once and the exact
\* mean is a threshold, v lies beside the threshold and the label is the one
\* of its side.
C5_Labels ==
  (pc = "velocity_done" /\ history # <<>>) => Labels(KeywordSets(items), SnapshotSetsFrom(2))

\* one batch with means of exactly 2.0, 0.5 and -0.2 computed without
\* rounding error, labelled rising, stable and declining
C5_Witness ==
  /\ pc = "velocity_done"
  /\ history # <<>>
  /\ \E i \in 1..Len(velocity_items) :
        velocity_items[i].velocity = 2000 /\ velocity_items[i].velocity_label = "rising"
  /\ \E i \in 1..Len(velocity_items) :
        velocity_items[i].velocity = 500 /\ velocity_items[i].velocity_label = "stable"
  /\ \E i \in 1..Len(velocity_items) :
        velocity_items[i].velocity = -200 /\ velocity_items[i].velocity_label = "declining"

\* no snapshot after history[0] (the first of the sequence) holds kw
NotInBaseline(kw) ==
  \A s \in 2..Len(history) :
     \A i \in 1..Len(history[s].all_items) :
        kw \notin _extract_keywords(history[s].all_items[i].title)

\* the sum over kws of the number of current items that hold the keyword
CurrentCounts(kws) ==
  Cardinality({p \in (1..Len(items)) \X kws : p[2] \in _extract_keywords(items[p[1]].title)})

\* C27: the baseline of calculate_velocity leaves out history[0]: a keyword
\* that history holds in history[0] only (or not at all) has the average 0
\* and the velocity current_count * 2.0, so with one snapshot every keyword
\* has, whatever the snapshot holds; an item of such keywords has the mean
\* of these velocities, and when each of its keywords occurs once in the
\* batch its velocity is exactly 2.0 and its label "rising".
C27_BaselineSkipsFirst ==
  (pc = "velocity_done" /\ history # <<>>) =>
    \A i \in 1..Len(velocity_items) :
       LET r   == velocity_items[i]
           kws == _extract_keywords(r.title)
       IN  (\A k \in kws : NotInBaseline(k)) =>
             /\ r.velocity = PyRound(<<2 * CurrentCounts(kws), Cardinality(kws)>>, 3)
             /\ CurrentCounts(kws) = Cardinality(kws) =>
                   r.velocity = 2000 /\ r.velocity_label = "rising"

\* the one snapshot of the history holds "gadgetx" twice, the batch once:
\* velocity 2.0, rising
C27_Witness ==
  /\ pc = "velocity_done"
  /\ items = <<i_gadgetx>>
  /\ history = <<Snapshot(<<i_gadgetx, i_widget>>)>>
  /\ Len(velocity_items) = 1
  /\ velocity_items[1].velocity = 2000
  /\ velocity_items[1].velocity_label = "rising"

\* the mean velocity of the keywords of title t, before any rounding
MeanVelocityOf(t) ==
  SpecMeanVelocity(_extract_keywords(t), KeywordSets(items), SnapshotSetsFrom(2))

\* score * W_velocity * max(v, 0.1), in hundredths
SpecCombined(score, v) ==
  IF 10 * v[1] > v[2]
  THEN <<score * W_velocity[1] * v[1], W_velocity[2] * v[2]>>
  ELSE <<score * W_velocity[1], W_velocity[2] * 10>>

\* c hundredths is q hundredths rounded to a whole number of hundredths
RoundedFrom(c, q) == 2 * Abs(c * q[2] - q[1]) <= q[2]

\* what C30 states of the two sides alike
VelocityFloor(r) ==
  LET v == MeanVelocityOf(r.title)
  IN  /\ v[1] > -v[2]
      /\ r.base_score >= 0 =>
            /\ r.combined_score >= 0
            /\ RoundedFrom(r.combined_score, SpecCombined(r.base_score, v))

\* C30 as stated: with a history every keyword velocity, and so every
\* output item's velocity, is strictly greater than -1; for an item of
\* non-negative score combined_score is non-negative and is
\* round(score * W_velocity * max(velocity, 0.1), 2), so that a declining
\* item's combined_score is never below score * W_velocity * 0.1.
C30_Original ==
  (pc = "velocity_done" /\ history # <<>>) =>
    \A i \in 1..Len(velocity_items) :
       LET r == velocity_items[i]
       IN  /\ VelocityFloor(r)
           /\ r.velocity > -1000
           /\ (r.base_score >= 0 /\ r.velocity_label = "declining") =>
                 r.combined_score * W_velocity[2] * 10 >= r.base_score * W_velocity[1]

\* C30, amended: the mean velocity of an item is greater than -1 before it
\* is rounded, and the velocity returned, rounded to 3 places, is at least
\* -1.0; combined_score is round(score * W_velocity * max(v, 0.1), 2) of
\* the unrounded mean v and non-negative for a non-negative score, so that
\* a declining item's combined_score is score * W_velocity * 0.1 rounded to
\* 2 places, at most 0.005 below it.
C30_VelocityFloor ==
  (pc = "velocity_done" /\ history # <<>>) =>
    \A i \in 1..Len(velocity_items) :
       LET r == velocity_items[i]
       IN  /\ VelocityFloor(r)
           /\ r.velocity >= -1000
           /\ (r.base_score >= 0 /\ r.velocity_label = "declining") =>
                 RoundedFrom(r.combined_score, <<r.base_score * W_velocity[1], W_velocity[2] * 10>>)

\* "gadgetx" once now and 2001 times in the snapshot that counts: the mean
\* -2000/2001 is returned as -1.0, and the score 0.05 gives the combined
\* score 0.01, below 0.05 * 2.5 * 0.1 = 0.0125
C30_Witness ==
  /\ pc = "velocity_done"
  /\ items = <<i_gadgetx>>
  /\ Len(history) = 2
  /\ Len(history[2].all_items) = 2001
  /\ velocity_items[1].velocity = -1000
  /\ velocity_items[1].velocity_label = "declining"
  /\ velocity_items[1].base_score = 5
  /\ velocity_items[1].combined_score = 1

(***************************************************************************)
(* 3. Niche opportunity finder (analyze.py, find_niche_opportunities)      *)
(*                                                                         *)
(* demand / (supply + 1) * weight * boost is computed on doubles.  For     *)
(* scores of two decimals the double result is within a few units in the   *)
(* last place of the exact quotient, so round(.., 2) returns the nearest   *)
(* hundredth of the exact value, except that an exact tie between two      *)
(* hundredths is decided by the rounding error of the operations: there    *)
(* the model lets either neighbour be returned (ties names the keywords    *)
(* whose tie goes up).                                                     *)
(***************************************************************************)
NichesTopK == 40

RelatedQueries == 5

\* the sum of f[i], an integer, for i in lo..hi
RECURSIVE SumRange(_, _, _)
SumRange(f, lo, hi) ==
  IF lo > hi THEN 0
  ELSE IF lo = hi THEN f[lo]
  ELSE LET mid == (lo + hi) \div 2
       IN  SumRange(f, lo, mid) + SumRange(f, mid + 1, hi)

\* the items that feed search_signals[kw]
SignalHolders(its, sets, kw) ==
  {i \in 1..Len(its) : its[i].source = s_google_trends /\ kw \in sets[i]}

\* the keys of search_signals
SignalKeywords(its, sets) ==
  UNION {sets[i] : i \in {j \in 1..Len(its) : its[j].source = s_google_trends}}

\* the orders of search_signals.items(): a key is inserted by the first item
\* that holds it, the keywords of one item in the order of its set
SignalOrders(its, sets) ==
  LET first(kw) == CHOOSE i \in SignalHolders(its, sets, kw) :
                      \A j \in SignalHolders(its, sets, kw) : i <= j
  IN  {o \in Orders(SignalKeywords(its, sets)) :
         \A a, b \in 1..Len(o) : a < b => first(o[a]) <= first(o[b])}

\* search_signals[kw]["demand_score"]
Demand(its, sets, kw) ==
  SumRange([i \in 1..Len(its) |->
              IF i \in SignalHolders(its, sets, kw) THEN its[i].score ELSE 0],
           1, Len(its))

\* set(search_signals[kw]["examples"])
ExampleTitles(its, sets, kw) == {its[i].title : i \in SignalHolders(its, sets, kw)}

\* youtube_keywords.get(kw, 0)
YoutubeSupply(its, sets, kw) ==
  Cardinality({i \in 1..Len(its) : its[i].source = s_youtube /\ kw \in sets[i]})

NicheDivisor_Supply(supply) == supply

\* the divisor of line 255
NicheDivisor(supply) == supply + 1

\* _normalize(tag) for tag in INTEREST_TAGS
NormalizedTags ==
  ForEach([t \in 1..Len(INTEREST_TAGS) |-> <<_normalize(INTEREST_TAGS[t])>>],
          1, Len(INTEREST_TAGS))

InterestBoost_WholeWord(kw) ==
  IF \E t \in 1..Len(NormalizedTags) : kw \in Range(Split(NormalizedTags[t]))
  THEN <<3, 2>> ELSE <<1, 1>>

\* interest_boost: 1.5 when kw is inside a normalized tag
InterestBoost(kw) ==
  IF \E t \in 1..Len(NormalizedTags) : IsSubstring(kw, NormalizedTags[t])
  THEN <<3, 2>> ELSE <<1, 1>>

\* demand / (supply + 1) * WEIGHTS["low_competition"] * interest_boost, in
\* hundredths, exactly
NicheValue(demand, supply, boost) ==
  RatMul(RatMul(<<demand, NicheDivisor(supply)>>, W_low_competition), boost)

\* a ZeroDivisionError at line 255
NicheFaults(its, sets) ==
  \E kw \in SignalKeywords(its, sets) : NicheDivisor(YoutubeSupply(its, sets, kw)) = 0

NicheRecord(its, sets, kw, up, related) ==
  LET supply == YoutubeSupply(its, sets, kw)
      demand == Demand(its, sets, kw)
      interest_boost == InterestBoost(kw)
  IN  [keyword         |-> kw,
       demand_score    |-> PyRound(<<demand, 100>>, 2),
       youtube_supply  |-> supply,
       niche_score     |-> RoundHundredths(NicheValue(demand, supply, interest_boost), up),
       interest_match  |-> RatLess(<<1, 1>>, interest_boost),
       related_queries |-> Take(related, RelatedQueries)]

\* order: search_signals.items(); ties: the keywords whose tie rounds up;
\* related: for each keyword the order of set(examples)
\* the list niches before the sort of line 273, each record under its sort key
NicheCandidates(its, order, ties, related) ==
  LET sets  == KeywordSets(its)
      keyed == [i \in 1..Len(order) |->
                  LET r == NicheRecord(its, sets, order[i], order[i] \in ties, related[order[i]])
                  IN  <<<<<<r.niche_score>>, r>>>>]
  IN  ForEach(keyed, 1, Len(order))

find_niche_opportunities(its, order, ties, related) ==
  Take(Values(SortDesc(NicheCandidates(its, order, ties, related))), NichesTopK)

MaxNicheItems == 3

t_auto_fasting == <<"A","u","t","o"," ","f","a","s","t","i","n","g">>

t_fasting == <<"F","a","s","t","i","n","g","!">>

\* search demand of 10.0 and of 0.05, a negative score, the supply side, and
\* a source the finder ignores
NicheItems ==
  {make_item(s_google_trends, t_auto_fasting, 1000, {}),
   make_item(s_google_trends, t_auto_fasting, 5, {}),
   make_item(s_google_trends, t_fasting, 5, {}),
   make_item(s_google_trends, <<"a","u","t","o","m","a","t","i","o","n","s">>, -100, {}),
   make_item(s_youtube, t_auto_fasting, 100, {}),
   make_item(s_youtube, t_fasting, 100, {}),
   make_item(s_reddit, t_auto_fasting, 100, {})}

InitNiche ==
  /\ items \in SeqsUpTo(NicheItems, MaxNicheItems)
  /\ history = <<>>
  /\ pc = "niche"
  /\ gaps = <<>>
  /\ velocity_items = <<>>
  /\ niches = <<>>
  /\ bridges = <<>>
  /\ LaterIdle

\* the keywords whose niche value is a tie between two hundredths
TieKeywords(its, sets) ==
  {kw \in SignalKeywords(its, sets) :
     IsTie(NicheValue(Demand(its, sets, kw), YoutubeSupply(its, sets, kw), InterestBoost(kw)))}

\* for each keyword an order of set(examples)
RelatedOrders(its, sets) ==
  LET keys == SignalKeywords(its, sets)
  IN  {related \in [keys -> UNION {Orders(ExampleTitles(its, sets, kw)) : kw \in keys}] :
         \A kw \in keys : related[kw] \in Orders(ExampleTitles(its, sets, kw))}

\* what a call can return
NicheOutcomes(its, sets) ==
  {find_niche_opportunities(its, order, ties, related) :
     order \in SignalOrders(its, sets),
     ties \in SUBSET TieKeywords(its, sets),
     related \in RelatedOrders(its, sets)}

FindNicheOpportunities ==
  /\ pc = "niche"
  /\ IF NicheFaults(items, KeywordSets(items))
     THEN /\ pc' = "niche_fault"
          /\ niches' = niches
     ELSE /\ pc' = "niche_done"
          /\ niches' \in NicheOutcomes(items, KeywordSets(items))
  /\ UNCHANGED <<items, history, gaps, velocity_items, bridges, later_state>>

NextNiche == FindNicheOpportunities

SpecNiche == InitNiche /\ [][NextNiche]_vars

(***************************************************************************)
(* Claims about the niche opportunity finder                               *)
(***************************************************************************)
RECURSIVE SpecScoreSum(_)
SpecScoreSum(I) ==
  IF I = {} THEN 0
  ELSE LET i == CHOOSE x \in I : TRUE IN items[i].score + SpecScoreSum(I \ {i})

\* 1.5 (as 3/2) if k is a substring of a normalized interest tag, else 1.0
SpecBoost(k) ==
  IF \E t \in 1..Len(INTEREST_TAGS) :
        LET tag == _normalize(INTEREST_TAGS[t])
        IN  \E a \in 1..Len(tag) : \E b \in a..Len(tag) : SubSeq(tag, a, b) = k
  THEN 3 ELSE 2

\* C6: for every niche result for keyword k, demand_score is the sum of
\* the scores of the google_trends items whose keyword set contains k,
\* youtube_supply is the number of youtube items whose keyword set contains
\* k, niche_score is demand_score / (youtube_supply + 1) * W_low_competition
\* * boost rounded to the nearest hundredth, boost being 1.5 if k is a
\* substring of a normalized interest tag and 1.0 otherwise, and
\* interest_match is true exactly when boost is 1.5.
C6_NicheScore ==
  pc = "niche_done" =>
    \A n \in 1..Len(niches) :
       LET r == niches[n]
           k == r.keyword
           demand == SpecScoreSum({i \in 1..Len(items) :
                        items[i].source = s_google_trends /\ k \in Keywords(items[i])})
           supply == Cardinality({i \in 1..Len(items) :
                        items[i].source = s_youtube /\ k \in Keywords(items[i])})
           \* demand / (supply + 1) * 2.0 * boost = num / den hundredths
           num == demand * 2 * SpecBoost(k)
           den == (supply + 1) * 2
       IN  /\ r.demand_score = demand
           /\ r.youtube_supply = supply
           /\ 2 * Abs(r.niche_score * den - num) <= den
           /\ r.interest_match <=> (SpecBoost(k) = 3)

k_fasting == <<"f","a","s","t","i","n","g">>

k_auto == <<"a","u","t","o">>

\* demand 10 and supply 0 give 10, times the weight and the boost 30, for a
\* keyword inside the tag "automation"; beside it a keyword in no tag, with
\* supply
C6_Witness ==
  /\ pc = "niche_done"
  /\ \E n \in 1..Len(niches) :
        /\ niches[n].keyword = k_auto
        /\ niches[n].demand_score = 1000
        /\ niches[n].youtube_supply = 0
        /\ niches[n].interest_match
        /\ niches[n].niche_score = 3000
  /\ \E n \in 1..Len(niches) :
        /\ niches[n].keyword = k_fasting
        /\ niches[n].youtube_supply = 1
        /\ ~niches[n].interest_match
        /\ niches[n].niche_score = 1000

\* C7: the finder does not fault, on a keyword without youtube supply or
\* otherwise, and when no item score is negative every result has
\* niche_score >= 0 and youtube_supply >= 0.
C7_NicheNonNegative ==
  /\ pc # "niche_fault"
  /\ (pc = "niche_done" /\ \A i \in 1..Len(items) : items[i].score >= 0) =>
        \A n \in 1..Len(niches) :
           niches[n].niche_score >= 0 /\ niches[n].youtube_supply >= 0

\* a result for a keyword that no youtube item holds, from non-negative
\* scores
C7_Witness ==
  /\ pc = "niche_done"
  /\ \A i \in 1..Len(items) : items[i].score >= 0
  /\ \E i \in 1..Len(items) : items[i].source = s_youtube
  /\ \E n \in 1..Len(niches) :
        niches[n].youtube_supply = 0 /\ niches[n].niche_score >= 0

(***************************************************************************)
(* 4. Bridge topic detector (analyze.py, detect_bridge_topics)             *)
(***************************************************************************)
BridgesTopK == 40

BridgeExamples == 5

g_tech == <<"t","e","c","h">>

g_mainstream == <<"m","a","i","n","s","t","r","e","a","m">>

g_content == <<"c","o","n","t","e","n","t">>

g_social == <<"s","o","c","i","a","l">>

\* [s.lower() for s in subs], for each group of SUBREDDITS
LoweredSubreddits ==
  ForEach([g \in 1..Len(SUBREDDITS) |->
             <<ForEach([m \in 1..Len(SUBREDDITS[g][2]) |-> <<StrLower(SUBREDDITS[g][2][m])>>],
                       1, Len(SUBREDDITS[g][2]))>>],
          1, Len(SUBREDDITS))

SubredditMatch_CaseSensitive(sub, g) ==
  \E m \in 1..Len(SUBREDDITS[g][2]) : SUBREDDITS[g][2][m] = sub

\* sub.lower() in [s.lower() for s in subs], for the group g
SubredditMatch(sub, g) ==
  \E m \in 1..Len(LoweredSubreddits[g]) : LoweredSubreddits[g][m] = StrLower(sub)

\* the groups of SUBREDDITS that list the subreddit of a reddit item
SubredditCommunities(it) ==
  LET sub == Get(it.extra, k_subreddit, <<>>)
  IN  {SUBREDDITS[g][1] : g \in {h \in 1..Len(SUBREDDITS) : SubredditMatch(sub, h)}}

SourceCommunity_Shared(source) ==
  IF source = s_hackernews THEN {g_tech}
  ELSE IF source \in {s_google_trends, s_twitter} THEN {g_mainstream}
  ELSE IF source = s_youtube THEN {g_content}
  ELSE {}

\* the elif chain of lines 293-300
SourceCommunity(source) ==
  IF source = s_hackernews THEN {g_tech}
  ELSE IF source = s_google_trends THEN {g_mainstream}
  ELSE IF source = s_youtube THEN {g_content}
  ELSE IF source = s_twitter THEN {g_social}
  ELSE {}

\* communities of one item
ItemCommunities(it) ==
  IF it.source = s_reddit THEN SubredditCommunities(it) ELSE SourceCommunity(it.source)

\* the communities of each item, in the order of the items
Communities(its) ==
  ForEach([i \in 1..Len(its) |-> <<ItemCommunities(its[i])>>], 1, Len(its))

\* item_communities, as the indexes of its items
CommunityItems(comms) == {i \in 1..Len(comms) : comms[i] # {}}

\* the items behind keyword_communities[kw]
BridgeHolders(sets, comms, kw) == {i \in CommunityItems(comms) : kw \in sets[i]}

\* the keys of keyword_communities
BridgeKeywords(sets, comms) == UNION {sets[i] : i \in CommunityItems(comms)}

\* the orders of keyword_communities.items(): a key is inserted by the first
\* item that holds it, the keywords of one item in the order of its set
BridgeOrders(sets, comms) ==
  LET first(kw) == CHOOSE i \in BridgeHolders(sets, comms, kw) :
                      \A j \in BridgeHolders(sets, comms, kw) : i <= j
  IN  {o \in Orders(BridgeKeywords(sets, comms)) :
         \A a, b \in 1..Len(o) : a < b => first(o[a]) <= first(o[b])}

\* keyword_communities[kw]["communities"]
KeywordCommunities(sets, comms, kw) == UNION {comms[i] : i \in BridgeHolders(sets, comms, kw)}

\* keyword_communities[kw]["total_score"]
TotalScore(its, sets, comms, kw) ==
  SumRange([i \in 1..Len(its) |->
              IF i \in BridgeHolders(sets, comms, kw) THEN its[i].score ELSE 0],
           1, Len(its))

\* keyword_communities[kw]["items"]
BridgeItems(its, sets, comms, kw) ==
  ForEach([i \in 1..Len(its) |->
             IF i \in BridgeHolders(sets, comms, kw) THEN <<its[i]>> ELSE <<>>],
          1, Len(its))

BridgeExample(it) == [title |-> it.title, source |-> it.source]

BridgeQualifies_One(communities) == Cardinality(communities) >= 1

\* line 321
BridgeQualifies(communities) == Cardinality(communities) >= 2

BridgeRecord(its, sets, comms, kw) ==
  LET communities == KeywordCommunities(sets, comms, kw)
      held == BridgeItems(its, sets, comms, kw)
      bridge_strength ==
        RatMul(<<Cardinality(communities) * TotalScore(its, sets, comms, kw), 100>>,
               W_community_bridge)
  IN  [keyword         |-> kw,
       communities     |-> SortedStrs(communities),
       num_communities |-> Cardinality(communities),
       bridge_score    |-> PyRound(bridge_strength, 2),
       total_mentions  |-> Len(held),
       examples        |-> [i \in 1..Len(Take(held, BridgeExamples)) |-> BridgeExample(held[i])]]

BridgesInOrder(its, sets, comms, order) ==
  ForEach([i \in 1..Len(order) |->
             IF BridgeQualifies(KeywordCommunities(sets, comms, order[i]))
             THEN LET r == BridgeRecord(its, sets, comms, order[i])
                  IN  <<<<<<r.bridge_score>>, r>>>>
             ELSE <<>>],
          1, Len(order))

\* order: keyword_communities.items()
detect_bridge_topics(its, order) ==
  Take(Values(SortDesc(BridgesInOrder(its, KeywordSets(its), Communities(its), order))),
       BridgesTopK)

MaxBridgeItems == 3

sub_cooking == <<"c","o","o","k","i","n","g">>

\* reddit items of a lifestyle and of a tech subreddit (the latter spelled
\* with a capital), of a subreddit in no group and without the key, and one
\* item of each other source
BridgeBatchItems ==
  {make_item(s_reddit, t_fasting, 100, {<<k_subreddit, <<"F","i","t","n","e","s","s">>>>}),
   make_item(s_reddit, t_auto_fasting, 50, {<<k_subreddit, <<"P","r","o","g","r","a","m","m","i","n","g">>>>}),
   make_item(s_reddit, t_fasting, 7, {<<k_subreddit, sub_cooking>>}),
   make_item(s_reddit, t_auto_fasting, 3, {}),
   make_item(s_hackernews, t_auto_fasting, 20, {}),
   make_item(s_google_trends, t_fasting, 1000, {}),
   make_item(s_youtube, t_auto_fasting, 5, {}),
   make_item(s_twitter, t_fasting, 11, {})}

InitBridge ==
  /\ items \in SeqsUpTo(BridgeBatchItems, MaxBridgeItems)
  /\ history = <<>>
  /\ pc = "bridge"
  /\ gaps = <<>>
  /\ velocity_items = <<>>
  /\ niches = <<>>
  /\ bridges = <<>>
  /\ LaterIdle

BridgeOutcomes(its, sets, comms) ==
  {detect_bridge_topics(its, order) : order \in BridgeOrders(sets, comms)}

DetectBridgeTopics ==
  /\ pc = "bridge"
  /\ pc' = "bridge_done"
  /\ bridges' \in BridgeOutcomes(items, KeywordSets(items), Communities(items))
  /\ UNCHANGED <<items, history, gaps, velocity_items, niches, later_state>>

NextBridge == DetectBridgeTopics

SpecBridge == InitBridge /\ [][NextBridge]_vars

(***************************************************************************)
(* Claims about the bridge topic detector                                  *)
(***************************************************************************)
\* C8: every bridge result has num_communities >= 2, num_communities equal
\* to the length of communities, and communities sorted without duplicates.
C8_BridgeCardinality ==
  pc = "bridge_done" =>
    \A n \in 1..Len(bridges) :
       /\ bridges[n].num_communities >= 2
       /\ bridges[n].num_communities = Len(bridges[n].communities)
       /\ \A a \in 1..(Len(bridges[n].communities) - 1) :
            StrLess(bridges[n].communities[a], bridges[n].communities[a + 1])

\* a keyword that spans three groups
C8_Witness ==
  /\ pc = "bridge_done"
  /\ \E n \in 1..Len(bridges) :
        /\ bridges[n].num_communities = 3
        /\ Len(bridges[n].communities) = 3

g_lifestyle == <<"l","i","f","e","s","t","y","l","e">>

\* the configured groups that list the subreddit of a reddit item, compared
\* without regard to case; none when the key is absent
SpecRedditGroups(it) ==
  IF \E p \in it.extra : p[1] = k_subreddit
  THEN LET sub == (CHOOSE p \in it.extra : p[1] = k_subreddit)[2]
       IN  {grp[1] : grp \in {g \in Range(SUBREDDITS) :
                                \E m \in 1..Len(g[2]) :
                                   /\ Len(g[2][m]) = Len(sub)
                                   /\ \A c \in 1..Len(sub) : Lower(g[2][m][c]) = Lower(sub[c])}}
  ELSE {}

\* the fixed group of the other sources
SpecFixedGroup(source) ==
  CASE source = s_hackernews    -> {g_tech}
    [] source = s_google_trends -> {g_mainstream}
    [] source = s_youtube       -> {g_content}
    [] source = s_twitter       -> {g_social}
    [] OTHER                    -> {}

SpecGroups(it) == IF it.source = s_reddit THEN SpecRedditGroups(it) ELSE SpecFixedGroup(it.source)

\* the items that hold k and resolve to a group
SpecContributors(k) ==
  {i \in 1..Len(items) : k \in Keywords(items[i]) /\ SpecGroups(items[i]) # {}}

\* C9: a reddit item resolves to exactly the configured groups whose member
\* list contains its extra.subreddit, compared case-insensitively (none if
\* unmatched or absent); an item that resolves to no group adds nothing to
\* a keyword's groups, mention count or score sum; and a keyword is in the
\* output, which here is not truncated, iff the union of the groups of the
\* items that hold it has at least 2 members.
C9_BridgeGroups ==
  (pc = "bridge_done" /\ Len(bridges) < BridgesTopK) =>
    /\ \A k \in BatchKeywords :
         LET G == UNION {SpecGroups(items[i]) : i \in SpecContributors(k)}
             found == {n \in 1..Len(bridges) : bridges[n].keyword = k}
         IN  /\ Cardinality(found) = (IF Cardinality(G) >= 2 THEN 1 ELSE 0)
             /\ \A n \in found :
                  /\ Range(bridges[n].communities) = G
                  /\ bridges[n].num_communities = Cardinality(G)
                  /\ bridges[n].total_mentions = Cardinality(SpecContributors(k))
                  /\ bridges[n].bridge_score =
                       Cardinality(G) * SpecScoreSum(SpecContributors(k)) * 2
    /\ \A n \in 1..Len(bridges) : bridges[n].keyword \in BatchKeywords

\* "fasting" in a reddit item of r/Fitness, in a google_trends item and in a
\* reddit item of a subreddit in no group: [lifestyle, mainstream], and two
\* mentions
C9_Witness ==
  /\ pc = "bridge_done"
  /\ Len(items) = 3
  /\ \E i \in 1..Len(items) :
        /\ items[i].source = s_reddit
        /\ k_fasting \in Keywords(items[i])
        /\ <<k_subreddit, sub_cooking>> \in items[i].extra
  /\ \E n \in 1..Len(bridges) :
        /\ bridges[n].keyword = k_fasting
        /\ bridges[n].communities = <<g_lifestyle, g_mainstream>>
        /\ bridges[n].num_communities = 2
        /\ bridges[n].total_mentions = 2

\* the keyword k is a bridge
SpecBridged(k) ==
  \E n \in 1..Len(bridges) : bridges[n].keyword = k /\ bridges[n].num_communities >= 2

\* the names of the groups of SUBREDDITS
ConfiguredGroups == {SUBREDDITS[g][1] : g \in 1..Len(SUBREDDITS)}

VoidsTopK == 20

VoidExamples == 5

HintMembers == 4

\* the keys of a dict in the order they were first inserted
InsertionOrder(s) ==
  LET first == [i \in 1..Len(s) |->
                  IF \E j \in 1..(i - 1) : s[j] = s[i] THEN <<>> ELSE <<s[i]>>]
  IN  ForEach(first, 1, Len(s))

\* co_occur[kw1][kw2]: the items whose title holds both keywords
co_occur(sets, kw1, kw2) ==
  Cardinality({i \in 1..Len(sets) : kw1 \in sets[i] /\ kw2 \in sets[i]})

\* co_occur.keys(): an item with two keywords or more inserts its keywords
\* in sorted order
CoOccurKeys(sets) ==
  LET per == [i \in 1..Len(sets) |->
                IF Cardinality(sets[i]) >= 2 THEN SortedStrs(sets[i]) ELSE <<>>]
  IN  InsertionOrder(ForEach(per, 1, Len(sets)))

\* co_occur[kw1].keys(): each item that holds kw1 inserts its other keywords
\* in sorted order
Partners(sets, kw1) ==
  LET per == [i \in 1..Len(sets) |->
                IF kw1 \in sets[i] THEN SortedStrs(sets[i] \ {kw1}) ELSE <<>>]
  IN  InsertionOrder(ForEach(per, 1, Len(sets)))

StrongCount == 3

\* lines 372-378: the pairs of count 3 or more, each once, strongest first,
\* as <<<<count>>, <<kw1, kw2>>>>
strong_pairs(sets) ==
  LET keys == CoOccurKeys(sets)
      of(kw1) == LET ps == Partners(sets, kw1)
                     each == [j \in 1..Len(ps) |->
                               IF co_occur(sets, kw1, ps[j]) >= StrongCount /\ StrLess(kw1, ps[j])
                               THEN << <<<<co_occur(sets, kw1, ps[j])>>, <<kw1, ps[j]>>>> >>
                               ELSE <<>>]
                 IN  ForEach(each, 1, Len(ps))
      all == [i \in 1..Len(keys) |-> of(keys[i])]
  IN  SortDesc(ForEach(all, 1, Len(keys)))

StrongPairsLimit == 100

\* line 385
Skips_FirstSeed(used, kw1, kw2) == kw1 \in used

Skips(used, kw1, kw2) == kw1 \in used \/ kw2 \in used

\* lines 389-393
Candidate_AnySeed(sets, used, kw1, kw2, candidate) ==
  /\ candidate \notin used
  /\ co_occur(sets, kw1, candidate) >= 2 \/ co_occur(sets, kw2, candidate) >= 2

Candidate(sets, used, kw1, kw2, candidate) ==
  /\ co_occur(sets, kw2, candidate) >= 1
  /\ candidate \notin used
  /\ co_occur(sets, kw1, candidate) >= 2 /\ co_occur(sets, kw2, candidate) >= 2

GrowCluster(sets, used, kw1, kw2) ==
  {kw1, kw2} \cup {c \in Range(Partners(sets, kw1)) : Candidate(sets, used, kw1, kw2, c)}

\* str.join
RECURSIVE Join(_, _)
Join(sep, strs) ==
  IF strs = <<>> THEN <<>>
  ELSE IF Len(strs) = 1 THEN strs[1]
  ELSE strs[1] \o sep \o Join(sep, Tail(strs))

\* lines 402-411: the items that hold two or more keywords of the cluster
Discussions_WholeCluster(its, sets, cluster) ==
  LET each == [i \in 1..Len(its) |->
                 IF cluster \subseteq sets[i]
                 THEN <<[title |-> its[i].title, source |-> its[i].source,
                         matching_keywords |-> SortedStrs(sets[i] \cap cluster)]>>
                 ELSE <<>>]
  IN  ForEach(each, 1, Len(its))

Discussions(its, sets, cluster) ==
  LET each == [i \in 1..Len(its) |->
                 IF Cardinality(sets[i] \cap cluster) >= 2
                 THEN <<[title |-> its[i].title, source |-> its[i].source,
                         matching_keywords |-> SortedStrs(sets[i] \cap cluster)]>>
                 ELSE <<>>]
  IN  ForEach(each, 1, Len(its))

\* void_score in hundredths: an integer or an integer and a half, which
\* round(..., 2) leaves as it is
VoidScore_Unweighted(size, discussions, pair_count) == size * discussions * pair_count * 100

VoidScore(size, discussions, pair_count) == size * discussions * pair_count * 50

\* lines 395-423: the void of a cluster, <<>> when there is none
VoidOf(its, sets, cluster, pair_count) ==
  LET cluster_list == SortedStrs(cluster)
      examples == Discussions(its, sets, cluster)
  IN  IF Cardinality(cluster) >= 3 /\ examples # <<>>
      THEN <<[concept_cluster  |-> cluster_list,
              concept_hint     |-> Join(<<" ", "+", " ">>, Take(cluster_list, HintMembers)),
              cluster_size     |-> Cardinality(cluster),
              discussion_count |-> Len(examples),
              void_score       |-> VoidScore(Cardinality(cluster), Len(examples), pair_count),
              examples         |-> Take(examples, VoidExamples)]>>
      ELSE <<>>

\* one iteration of the loop of line 384, with used as the iteration finds it
ExpandPair(its, sets, pair, used) ==
  LET kw1 == pair[2][1]
      kw2 == pair[2][2]
      skipped == Skips(used, kw1, kw2)
      cluster == IF skipped THEN {} ELSE GrowCluster(sets, used, kw1, kw2)
  IN  [kw1 |-> kw1, kw2 |-> kw2, pair_count |-> pair[1][1], used |-> used,
       skipped |-> skipped, cluster |-> cluster,
       void |-> IF skipped THEN <<>> ELSE VoidOf(its, sets, cluster, pair[1][1])]

\* line 424: used after some iterations
UsedAfter(used, steps) ==
  used \cup UNION {steps[i].cluster : i \in {j \in 1..Len(steps) : steps[j].void # <<>>}}

\* the iterations over pairs[lo..hi], the first of which finds used
RECURSIVE ExpandPairs(_, _, _, _, _, _)
ExpandPairs(its, sets, pairs, lo, hi, used) ==
  IF lo > hi THEN <<>>
  ELSE IF lo = hi THEN <<ExpandPair(its, sets, pairs[lo], used)>>
  ELSE LET mid == (lo + hi) \div 2
           first == ExpandPairs(its, sets, pairs, lo, mid, used)
       IN  first \o ExpandPairs(its, sets, pairs, mid + 1, hi, UsedAfter(used, first))

VoidExpansions(its, sets) ==
  LET pairs == Take(strong_pairs(sets), StrongPairsLimit)
  IN  ExpandPairs(its, sets, pairs, 1, Len(pairs), {})

\* lines 426-427 on the voids the iterations appended
\* the list voids before the sort of line 426, each record under its sort key
VoidCandidates(steps) ==
  LET found == [i \in 1..Len(steps) |->
                  IF steps[i].void = <<>> THEN <<>>
                  ELSE << <<<<steps[i].void[1].void_score>>, steps[i].void[1]>> >>]
  IN  ForEach(found, 1, Len(steps))

ReturnedVoids(steps) == Take(Values(SortDesc(VoidCandidates(steps))), VoidsTopK)

\* the batches the void detector is run on
MaxVoidItems == 4

i_abc == make_item(s_reddit, <<"A","n","t"," ","b","e","e"," ","c","o","w">>, 100, {})

i_abd == make_item(s_hackernews, <<"a","n","t",","," ","b","e","e",":"," ","d","o","e">>, 100, {})

i_ab == make_item(s_reddit, <<"a","n","t"," ","B","e","e">>, 100, {})

i_def == make_item(s_reddit, <<"d","o","e"," ","e","l","k"," ","f","o","x">>, 100, {})

i_bcd == make_item(s_reddit, <<"b","e","e"," ","c","o","w"," ","d","o","e">>, 100, {})

i_ace == make_item(s_reddit, <<"a","n","t"," ","c","o","w"," ","e","l","k">>, 100, {})

\* a title of 15 keywords, which make 105 pairs
i_many == make_item(s_reddit,
  <<"k","0","1"," ","k","0","2"," ","k","0","3"," ","k","0","4"," ","k","0","5"," ","k","0","6"," ","k","0","7"," ","k","0","8"," ","k","0","9"," ","k","1","0"," ","k","1","1"," ","k","1","2"," ","k","1","3"," ","k","1","4"," ","k","1","5">>,
  100, {})

\* two clusters side by side; a pair whose cluster stays at two keywords
\* before a cluster with one of them; a pair whose second keyword only is
\* used; more strong pairs than are examined; more discussions than examples;
\* an item that discusses a cluster without holding both of its seeds
VoidScenarios ==
  {Rep(3, i_abc) \o Rep(3, i_def),
   <<i_abc, i_abc, i_ab, i_bcd>> \o Rep(3, i_def),
   Rep(3, i_ab) \o Rep(3, i_bcd),
   Rep(4, i_bcd) \o Rep(3, i_ace),
   Rep(3, i_many) \o Rep(3, i_def),
   Rep(4, i_def) \o Rep(3, i_many),
   Rep(6, i_abc)}

InitVoids ==
  /\ items \in SeqsUpTo({i_abc, i_abd, i_ab}, MaxVoidItems) \cup VoidScenarios
  /\ history = <<>>
  /\ pc = "voids"
  /\ gaps = <<>>
  /\ velocity_items = <<>>
  /\ niches = <<>>
  /\ bridges = <<>>
  /\ LaterIdle

DetectLinguisticVoids ==
  /\ pc = "voids"
  /\ expansions' = VoidExpansions(items, KeywordSets(items))
  /\ voids' = ReturnedVoids(expansions')
  /\ pc' = "voids_done"
  /\ UNCHANGED <<items, history, gaps, velocity_items, niches, bridges,
                 relevant, interest_tags, calls, analysis_json, texts, keywords, candidates, io_state>>

NextVoids == DetectLinguisticVoids

SpecVoids == InitVoids /\ [][NextVoids]_vars

(***************************************************************************)
(* Claims about the void detector                                          *)
(***************************************************************************)
Clusters == {Range(voids[n].concept_cluster) : n \in 1..Len(voids)}

\* C11: across all voids returned by one call of detect_linguistic_voids no
\* keyword appears in the concept_cluster of two different voids.
C11_DisjointClusters ==
  pc = "voids_done" =>
    \A m, n \in 1..Len(voids) :
       m # n => Range(voids[m].concept_cluster) \cap Range(voids[n].concept_cluster) = {}

k_ant == <<"a","n","t">>

k_bee == <<"b","e","e">>

k_cow == <<"c","o","w">>

k_doe == <<"d","o","e">>

k_elk == <<"e","l","k">>

k_fox == <<"f","o","x">>

\* two voids are returned, and pairs over keywords of the first were skipped
C11_Witness ==
  /\ pc = "voids_done"
  /\ Clusters = {{k_ant, k_bee, k_cow}, {k_doe, k_elk, k_fox}}
  /\ \E i \in 1..Len(expansions) : expansions[i].skipped

\* the number of items of the batch whose titles hold both keywords
Together(sets, a, b) == Cardinality({i \in 1..Len(sets) : {a, b} \subseteq sets[i]})

\* the first item of the batch that holds all of the keywords kws
FirstWith(sets, kws) == CHOOSE i \in 1..Len(sets) :
  kws \subseteq sets[i] /\ \A j \in 1..(i - 1) : ~(kws \subseteq sets[j])

\* the strong pair <<a, b>> is met before the strong pair <<c, d>> when the
\* pairs are collected: first by the item that brings the first keyword
\* beside another one, then by that keyword, then by the item that brings
\* the pair, then by the second keyword
FirstPaired(sets, a) == CHOOSE i \in 1..Len(sets) :
  a \in sets[i] /\ Cardinality(sets[i]) >= 2
  /\ \A j \in 1..(i - 1) : ~(a \in sets[j] /\ Cardinality(sets[j]) >= 2)

MetBefore(sets, a, b, c, d) ==
  IF a # c
  THEN \/ FirstPaired(sets, a) < FirstPaired(sets, c)
       \/ FirstPaired(sets, a) = FirstPaired(sets, c) /\ StrLess(a, c)
  ELSE \/ FirstWith(sets, {a, b}) < FirstWith(sets, {c, d})
       \/ FirstWith(sets, {a, b}) = FirstWith(sets, {c, d}) /\ StrLess(b, d)

\* the strong pair <<a, b>> comes before the strong pair <<c, d>>
Stronger(sets, a, b, c, d) ==
  \/ Together(sets, a, b) > Together(sets, c, d)
  \/ Together(sets, a, b) = Together(sets, c, d) /\ MetBefore(sets, a, b, c, d)

StrongPairs(sets) ==
  LET K == UNION Range(sets)
  IN  {p \in K \X K : StrLess(p[1], p[2]) /\ Together(sets, p[1], p[2]) >= 3}

\* the keywords of the clusters accepted before iteration i
Accepted(i) ==
  UNION {expansions[j].cluster :
           j \in {n \in 1..(i - 1) : ~expansions[n].skipped
                                      /\ Cardinality(expansions[n].cluster) >= 3}}

GreedyStep(sets, i) ==
  LET e == expansions[i]
  IN  /\ <<e.kw1, e.kw2>> \in StrongPairs(sets)
      /\ e.pair_count = Together(sets, e.kw1, e.kw2)
      /\ \A j \in 1..(i - 1) :
            Stronger(sets, expansions[j].kw1, expansions[j].kw2, e.kw1, e.kw2)
      /\ e.used = Accepted(i)
      /\ e.skipped <=> (e.kw1 \in Accepted(i) \/ e.kw2 \in Accepted(i))
      /\ ~e.skipped =>
            e.cluster = {e.kw1, e.kw2} \cup
               {k \in (UNION Range(sets)) \ Accepted(i) :
                  Together(sets, k, e.kw1) >= 2 /\ Together(sets, k, e.kw2) >= 2}

Greedy(sets) ==
  /\ Len(expansions) <= 100
  /\ \A i \in 1..Len(expansions) : GreedyStep(sets, i)
  /\ \A p \in StrongPairs(sets) :
        \/ \E i \in 1..Len(expansions) : <<expansions[i].kw1, expansions[i].kw2>> = p
        \/ /\ Len(expansions) = 100
           /\ \A i \in 1..Len(expansions) :
                 Stronger(sets, expansions[i].kw1, expansions[i].kw2, p[1], p[2])
  /\ \A n \in 1..Len(voids) :
        /\ voids[n].cluster_size >= 3
        /\ voids[n].cluster_size = Len(voids[n].concept_cluster)
        /\ \E i \in 1..Len(expansions) :
              ~expansions[i].skipped /\ expansions[i].cluster = Range(voids[n].concept_cluster)

\* C12: detect_linguistic_voids processes at most the 100 strongest pairs
\* (co-occurrence count >= 3) in descending count order, stable for equal
\* counts; a pair is skipped iff one of its keywords is already in an
\* accepted cluster; otherwise its cluster is the two seeds plus exactly those
\* not-yet-used keywords that co-occur with each of the two seeds in at least
\* 2 items; every returned void has cluster_size >= 3 equal to
\* len(concept_cluster), and keywords of a seeded cluster that stayed below
\* size 3 are not marked used.
C12_GreedyClusters == pc = "voids_done" => Greedy(KeywordSets(items))

\* the pair ant, bee seeds a cluster that stays at two keywords; bee then
\* seeds the cluster bee, cow, doe, and the pairs after it are skipped
C12_Witness ==
  /\ pc = "voids_done"
  /\ Len(expansions) = 4
  /\ expansions[1].cluster = {k_ant, k_bee} /\ ~expansions[1].skipped
  /\ expansions[2].cluster = {k_bee, k_cow, k_doe} /\ expansions[2].used = {}
  /\ expansions[3].skipped /\ expansions[4].skipped
  /\ Clusters = {{k_bee, k_cow, k_doe}}

\* C13: every concept_cluster returned by detect_linguistic_voids consists
\* of 3 or more mutually co-occurring keywords: every two distinct keywords
\* of the cluster occur together in the title of at least one item.
MutuallyCoOccurring(sets) ==
  \A c \in Clusters :
     /\ Cardinality(c) >= 3
     /\ \A a, b \in c : a # b => Together(sets, a, b) >= 1

C13_MutuallyCoOccurring == pc = "voids_done" => MutuallyCoOccurring(KeywordSets(items))

\* the items whose keyword set shares two keywords or more with the cluster
Discussing(sets, c) == {i \in 1..Len(sets) : Cardinality(sets[i] \cap c) >= 2}

\* the co-occurrence count of the pair that seeded the cluster c
SeedPairCount(sets, c) ==
  LET e == expansions[CHOOSE i \in 1..Len(expansions) :
                        ~expansions[i].skipped /\ expansions[i].cluster = c]
  IN  Together(sets, e.kw1, e.kw2)

\* the first 4 members of a sorted cluster joined by " + "
SpecHint(c) ==
  LET plus == <<" ", "+", " ">>
      three == c[1] \o plus \o c[2] \o plus \o c[3]
  IN  IF Len(c) = 3 THEN three ELSE three \o plus \o c[4]

VoidFields(sets, v) ==
  LET c == Range(v.concept_cluster)
      D == Discussing(sets, c)
  IN  /\ \A a, b \in 1..Len(v.concept_cluster) :
            a < b => StrLess(v.concept_cluster[a], v.concept_cluster[b])
      /\ v.discussion_count = Cardinality(D)
      /\ v.void_score = v.cluster_size * v.discussion_count * SeedPairCount(sets, c) * 50
      /\ v.concept_hint = SpecHint(v.concept_cluster)
      /\ Len(v.examples) <= 5
      /\ Len(v.examples) = Min(5, Cardinality(D))
      /\ \A j \in 1..Len(v.examples) :
            \E i \in D :
               /\ v.examples[j].title = items[i].title
               /\ v.examples[j].source = items[i].source
               /\ Range(v.examples[j].matching_keywords) = sets[i] \cap c

\* C14: for every returned void, discussion_count equals the number of batch
\* items whose keyword set shares at least 2 keywords with the cluster,
\* void_score == round(cluster_size * discussion_count * seed_pair_count * 0.5, 2)
\* (held in hundredths) where seed_pair_count is the co-occurrence count of
\* the pair that seeded the cluster, concept_hint joins the first 4 members
\* of the sorted cluster, and examples holds at most 5 of those items.
C14_VoidFields ==
  pc = "voids_done" =>
    \A n \in 1..Len(voids) : VoidFields(KeywordSets(items), voids[n])

\* six items discuss ant, bee, cow: 3 * 6 * 6 * 0.5 = 54.0 with 5 examples
C14_Witness ==
  /\ pc = "voids_done"
  /\ Len(items) = 6
  /\ Len(voids) = 1
  /\ voids[1].concept_cluster = <<k_ant, k_bee, k_cow>>
  /\ voids[1].discussion_count = 6
  /\ voids[1].void_score = 5400
  /\ Len(voids[1].examples) = 5

\* the iterations of the loop over the strong pairs that grew a cluster of
\* three or more keywords
Grown == {i \in 1..Len(expansions) : ~expansions[i].skipped /\ Cardinality(expansions[i].cluster) >= 3}

\* C29: for every void, discussion_count >= the co-occurrence count of its
\* seed pair >= 3; so every cluster that reached three keywords passes the
\* test for an evidencing item and becomes a void, and void_score is at
\* least 3 * 3 * 3 * 0.5 = 13.5.
C29_VoidEvidence ==
  pc = "voids_done" =>
    /\ \A i \in Grown :
          /\ expansions[i].void # <<>>
          /\ expansions[i].void[1].discussion_count >=
                Together(KeywordSets(items), expansions[i].kw1, expansions[i].kw2)
          /\ Together(KeywordSets(items), expansions[i].kw1, expansions[i].kw2) >= 3
          /\ expansions[i].void[1].void_score >= 1350
    /\ \A n \in 1..Len(voids) :
          \E i \in Grown : expansions[i].void = <<voids[n]>>

\* two voids of one batch: one of the smallest score, 13.5, with as many
\* discussions as its seed pair has co-occurrences, three, and one with
\* more discussions than its seed pair has co-occurrences
C29_Witness ==
  /\ pc = "voids_done"
  /\ \E n \in 1..Len(voids) :
        /\ voids[n].void_score = 1350
        /\ voids[n].discussion_count = 3
  /\ \E i \in Grown :
        expansions[i].void[1].discussion_count >
          Together(KeywordSets(items), expansions[i].kw1, expansions[i].kw2)

(***************************************************************************)
(* 6. Interest-relevance scoring (analyze.py, score_personal_relevance)    *)
(***************************************************************************)
RelevantTopK == 30

\* lines 434-436
interest_kws(tags) == UNION {_extract_keywords(tags[i]) : i \in 1..Len(tags)}

\* line 454: the sort key
RelevanceKey_ScoreFirst(r) == <<r.score, r.relevance>>

RelevanceKey(r) == <<r.relevance, r.score>>

\* lines 440-452: the record of an item, <<>> for an item without overlap;
\* relevance is held in thousandths
RelevanceRecord(it, kws, interest) ==
  LET overlap == kws \cap interest
      relevance == <<Cardinality(overlap), Max(Cardinality(interest), 1)>>
  IN  IF RatLess(<<0, 1>>, relevance)
      THEN <<[title |-> it.title, source |-> it.source, score |-> it.score,
              relevance |-> PyRound(relevance, 3),
              matching_tags |-> SortedStrs(overlap)]>>
      ELSE <<>>

\* the list scored before the sort of line 454, each record under its sort key
RelevanceCandidates(its, sets, tags) ==
  LET interest == interest_kws(tags)
      scored == [i \in 1..Len(its) |->
                   LET r == RelevanceRecord(its[i], sets[i], interest)
                   IN  IF r = <<>> THEN <<>> ELSE << <<RelevanceKey(r[1]), r[1]>> >>]
  IN  ForEach(scored, 1, Len(its))

score_personal_relevance(its, sets, tags) ==
  Take(Values(SortDesc(RelevanceCandidates(its, sets, tags))), RelevantTopK)

\* the batches and the tag lists the scorer is run on: the configured tags,
\* no tag, tags that leave no keyword, and one tag of two keywords
MaxRelItems == 3

i_tools == make_item(s_reddit, <<"A","u","t","o","m","a","t","i","o","n"," ","t","o","o","l","s","!">>, 100, {})

i_indie == make_item(s_hackernews, <<"I","n","d","i","e"," ","s","t","u","f","f">>, 500, {})

i_indie_low == make_item(s_reddit, <<"i","n","d","i","e"," ","S","t","u","f","f","?">>, 100, {})

i_cooking == make_item(s_youtube, <<"C","o","o","k","i","n","g"," ","t","h","e"," ","A","I">>, 900, {})

TagLists ==
  {INTEREST_TAGS, <<>>, <<<<"A","I">>, <<"n","o">>>>, <<<<"I","n","d","i","e"," ","t","o","o","l","s">>>>}

InitRelevance ==
  /\ items \in SeqsUpTo({i_tools, i_indie, i_indie_low, i_cooking}, MaxRelItems)
                 \cup {Rep(RelevantTopK, i_indie_low) \o <<i_cooking, i_indie, i_tools>>}
  /\ history = <<>>
  /\ pc = "relevance"
  /\ gaps = <<>>
  /\ velocity_items = <<>>
  /\ niches = <<>>
  /\ bridges = <<>>
  /\ voids = <<>>
  /\ expansions = <<>>
  /\ relevant = <<>>
  /\ interest_tags \in TagLists
  /\ calls = <<>>
  /\ analysis_json = <<>>
  /\ texts = <<>>
  /\ keywords = <<>>
  /\ candidates = <<>>
  /\ IoIdle

ScorePersonalRelevance ==
  /\ pc = "relevance"
  /\ relevant' = score_personal_relevance(items, KeywordSets(items), interest_tags)
  /\ pc' = "relevance_done"
  /\ UNCHANGED <<items, history, gaps, velocity_items, niches, bridges,
                 voids, expansions, interest_tags, calls, analysis_json, texts, keywords, candidates, io_state>>

NextRelevance == ScorePersonalRelevance

SpecRelevance == InitRelevance /\ [][NextRelevance]_vars

(***************************************************************************)
(* Claims about the relevance scorer                                       *)
(***************************************************************************)
\* the union of the keywords extracted from every interest tag
InterestKeywords == UNION {_extract_keywords(interest_tags[i]) : i \in 1..Len(interest_tags)}

\* the items whose keyword sets intersect the interest keyword set
Matching(sets, I) == {i \in 1..Len(sets) : sets[i] \cap I # {}}

SameItem(r, i) ==
  r.title = items[i].title /\ r.source = items[i].source /\ r.score = items[i].score

\* relevance descending, raw score descending as the tiebreak
NotBelow(rel1, score1, rel2, score2) == rel1 > rel2 \/ (rel1 = rel2 /\ score1 >= score2)

\* what C15 says of the output apart from the value of relevance: the items
\* returned, their order and their number
RelevantItems(sets, I) ==
  LET M == Matching(sets, I)
      hits(i) == Cardinality(sets[i] \cap I)
  IN  /\ Len(relevant) = Min(30, Cardinality(M))
      /\ \A j \in 1..Len(relevant) :
            /\ \E i \in M : SameItem(relevant[j], i)
                            /\ Range(relevant[j].matching_tags) = sets[i] \cap I
            /\ relevant[j].relevance > 0 /\ relevant[j].relevance <= 1000
      /\ \A i \in M :
            \/ Cardinality({j \in 1..Len(relevant) : SameItem(relevant[j], i)})
                 = Cardinality({n \in M : SameItem(items[n], i)})
            \/ /\ Cardinality(M) > 30
               /\ \A j \in 1..Len(relevant) :
                     \E n \in M : /\ SameItem(relevant[j], n)
                                  /\ NotBelow(hits(n), items[n].score, hits(i), items[i].score)
      /\ \A a, b \in 1..Len(relevant) :
            a < b => NotBelow(relevant[a].relevance, relevant[a].score,
                              relevant[b].relevance, relevant[b].score)
      /\ I = {} => relevant = <<>>

\* the original statement: relevance, in thousandths, is the quotient itself
ExactRelevance(sets, I) ==
  \A j \in 1..Len(relevant) :
     \E i \in Matching(sets, I) :
        /\ SameItem(relevant[j], i)
        /\ relevant[j].relevance * Max(Cardinality(I), 1) = 1000 * Cardinality(sets[i] \cap I)

\* relevance is the quotient rounded to 3 places: a nearest thousandth
RoundedRelevance(sets, I) ==
  \A j \in 1..Len(relevant) :
     \E i \in Matching(sets, I) :
        /\ SameItem(relevant[j], i)
        /\ 2 * Abs(relevant[j].relevance * Max(Cardinality(I), 1)
                     - 1000 * Cardinality(sets[i] \cap I)) <= Max(Cardinality(I), 1)

C15_Original ==
  pc = "relevance_done" =>
    /\ RelevantItems(KeywordSets(items), InterestKeywords)
    /\ ExactRelevance(KeywordSets(items), InterestKeywords)

\* C15 (amended): score_personal_relevance outputs an item iff its keyword
\* set intersects the interest keyword set; its relevance is
\* |item_keywords /\ interest_keywords| / max(|interest_keywords|, 1) rounded
\* to 3 places, with 0 < relevance <= 1; the output is ordered by relevance
\* descending with raw score descending as the tiebreak and holds at most 30
\* items; with an empty interest keyword set the output is empty and nothing
\* is divided by zero.
C15_Relevance ==
  pc = "relevance_done" =>
    /\ RelevantItems(KeywordSets(items), InterestKeywords)
    /\ RoundedRelevance(KeywordSets(items), InterestKeywords)

\* with the 18 keywords of the configured tags: 2 of them give 0.111, 1 of
\* them 0.056, and the higher score comes first among the equal relevances
C15_Witness ==
  /\ pc = "relevance_done"
  /\ interest_tags = INTEREST_TAGS
  /\ Cardinality(InterestKeywords) = 18
  /\ items = <<i_indie_low, i_tools, i_indie>>
  /\ Len(relevant) = 3
  /\ relevant[1].relevance = 111
  /\ relevant[2].relevance = 56 /\ relevant[2].score = 500
  /\ relevant[3].relevance = 56 /\ relevant[3].score = 100

(***************************************************************************)
(* Main analysis pipeline (analyze.py, run_analysis)                       *)
(*                                                                         *)
(* items is data.get("all_items", []) of the latest scrape, the empty list *)
(* also when latest_scrape.json is missing (load_latest_scrape); an item   *)
(* or an archived item may come without the key "title". analysis_json is  *)
(* the file analysis.json: <<>> while there is none, else <<its content>>. *)
(***************************************************************************)
Analyzers == <<"gaps", "velocity", "niches", "bridges", "voids", "relevance">>

\* line 468: if not items
NothingToAnalyze_Never(its) == FALSE

NothingToAnalyze(its) == its = <<>>

\* item["title"] raises KeyError
Untitled(it) == "title" \notin DOMAIN it

\* the n-th analyzer raises: it reads item["title"] of an item without one
\* (lines 95, 167 and 172, 234 and 248, 313, 360, 440)
AnalyzerFaults(n, its, hist) ==
  LET past == IF hist = <<>> THEN <<>> ELSE AllItems(HistoryTail(hist))
  IN  CASE n = 1 -> \E i \in 1..Len(its) : Untitled(its[i])
        [] n = 2 -> /\ hist # <<>>
                    /\ \/ \E i \in 1..Len(its) : Untitled(its[i])
                       \/ \E i \in 1..Len(past) : Untitled(past[i])
        [] n = 3 -> \E i \in 1..Len(its) :
                       its[i].source \in {s_google_trends, s_youtube} /\ Untitled(its[i])
        [] n = 4 -> \E i \in 1..Len(its) : ItemCommunities(its[i]) # {} /\ Untitled(its[i])
        [] n = 5 -> \E i \in 1..Len(its) : Untitled(its[i])
        [] n = 6 -> \E i \in 1..Len(its) : Untitled(its[i])

\* line 501 is reached: all six calls have returned
AllReturned_First(done) == Len(done) >= 1

AllReturned(done) == Len(done) = Len(Analyzers)

\* lines 501-512, without the timestamps and the sources summary
Analysis(total) ==
  [total_items_analyzed |-> total,
   cross_platform_gaps  |-> gaps,
   velocity_leaders     |-> velocity_items,
   niche_opportunities  |-> niches,
   bridge_topics        |-> bridges,
   linguistic_voids     |-> voids,
   personal_relevance   |-> relevant]

\* the batches, histories and earlier analysis.json run_analysis starts from
MaxRunItems == 2

MaxRunHistory == 2

i_empty == make_item(s_hackernews, <<>>, 100, {})

i_untitled == [source |-> s_google_trends, score |-> 100, extra |-> {}]

EarlierAnalysis ==
  [total_items_analyzed |-> 7, cross_platform_gaps |-> <<>>, velocity_leaders |-> <<>>,
   niche_opportunities |-> <<>>, bridge_topics |-> <<>>, linguistic_voids |-> <<>>,
   personal_relevance |-> <<>>]

InitAnalysis ==
  /\ items \in SeqsUpTo({i_tools, i_empty, i_untitled}, MaxRunItems)
  /\ history \in SeqsUpTo({Snapshot(<<>>), Snapshot(<<i_tools>>), Snapshot(<<i_untitled>>)},
                          MaxRunHistory)
  /\ pc = "run_analysis"
  /\ gaps = <<>>
  /\ velocity_items = <<>>
  /\ niches = <<>>
  /\ bridges = <<>>
  /\ voids = <<>>
  /\ expansions = <<>>
  /\ relevant = <<>>
  /\ interest_tags = INTEREST_TAGS
  /\ calls = <<>>
  /\ analysis_json \in {<<>>, <<EarlierAnalysis>>}
  /\ texts = <<>>
  /\ keywords = <<>>
  /\ candidates = <<>>
  /\ IoIdle

\* lines 466-473
StartAnalysis ==
  /\ pc = "run_analysis"
  /\ pc' = IF NothingToAnalyze(items) THEN "returned" ELSE "analyzing"
  /\ UNCHANGED <<items, history, gaps, velocity_items, niches, bridges, later_state>>

\* what the n-th analyzer returns
Returns(n, its, hist, sets) ==
  CASE n = 1 -> {detect_cross_platform_gaps(its, order) : order \in Orders(PresenceKeywords(its))}
    [] n = 2 -> VelocityOutcomes(its, hist, sets,
                                 IF hist = <<>> THEN <<>> ELSE KeywordSets(AllItems(HistoryTail(hist))))
    [] n = 3 -> NicheOutcomes(its, sets)
    [] n = 4 -> BridgeOutcomes(its, sets, Communities(its))
    [] n = 5 -> {VoidExpansions(its, sets)}
    [] n = 6 -> {score_personal_relevance(its, sets, interest_tags)}

\* lines 476-498: the next of the six calls; an exception an analyzer raises
\* is caught nowhere and ends the run
CallAnalyzer ==
  /\ pc = "analyzing"
  /\ ~AllReturned(calls)
  /\ LET n == Len(calls) + 1
     IN  /\ calls' = Append(calls, Analyzers[n])
         /\ IF AnalyzerFaults(n, items, history)
            THEN /\ pc' = "failed"
                 /\ UNCHANGED <<gaps, velocity_items, niches, bridges, voids, expansions, relevant>>
            ELSE /\ pc' = pc
                 /\ \E result \in Returns(n, items, history, KeywordSets(items)) :
                       /\ gaps' = IF n = 1 THEN result ELSE gaps
                       /\ velocity_items' = IF n = 2 THEN result ELSE velocity_items
                       /\ niches' = IF n = 3 THEN result ELSE niches
                       /\ bridges' = IF n = 4 THEN result ELSE bridges
                       /\ expansions' = IF n = 5 THEN result ELSE expansions
                       /\ voids' = IF n = 5 THEN ReturnedVoids(result) ELSE voids
                       /\ relevant' = IF n = 6 THEN result ELSE relevant
  /\ UNCHANGED <<items, history, interest_tags, analysis_json, texts, keywords, candidates, io_state>>

\* lines 501-518
SaveAnalysis ==
  /\ pc = "analyzing"
  /\ AllReturned(calls)
  /\ analysis_json' = <<Analysis(Len(items))>>
  /\ pc' = "saved"
  /\ UNCHANGED <<items, history, gaps, velocity_items, niches, bridges,
                 voids, expansions, relevant, interest_tags, calls, texts, keywords, candidates, io_state>>

NextAnalysis == StartAnalysis \/ CallAnalyzer \/ SaveAnalysis

SpecAnalysis == InitAnalysis /\ [][NextAnalysis]_vars

(***************************************************************************)
(* Claims about run_analysis                                               *)
(***************************************************************************)
NoResult ==
  /\ gaps = <<>> /\ velocity_items = <<>> /\ niches = <<>>
  /\ bridges = <<>> /\ voids = <<>> /\ relevant = <<>>

\* C16: when the current batch has zero items, run_analysis short-circuits:
\* every step it takes invokes no analyzer, ends in no failure, leaves the
\* six result lists empty and writes nothing.
C16_EmptyBatch ==
  [][items = <<>> =>
        /\ pc' = "returned"
        /\ calls' = <<>>
        /\ NoResult'
        /\ analysis_json' = analysis_json]_vars

\* a run on an empty batch has returned beside the analysis.json of an
\* earlier run, with histories on file
C16_Witness ==
  /\ pc = "returned"
  /\ items = <<>>
  /\ history # <<>>
  /\ calls = <<>>
  /\ NoResult
  /\ analysis_json = <<EarlierAnalysis>>

\* an analyzer faults during the run: an item it reads has no title
SomeAnalyzerFaults ==
  \/ \E i \in 1..Len(items) : "title" \notin DOMAIN items[i]
  \/ \E h \in 2..Len(history) :
        \E i \in 1..Len(history[h].all_items) : "title" \notin DOMAIN history[h].all_items[i]

\* C17: if any of the six analyzers faults during run_analysis, the run ends
\* there as one failure and no result is published: analysis.json is
\* written only after all six analyzers have returned, with all six lists,
\* and a failed run leaves an existing analysis.json unchanged.
C17_FaultPropagates ==
  [][/\ pc # "failed"
     /\ pc' = "failed" => analysis_json' = analysis_json
     /\ analysis_json' # analysis_json =>
           /\ ~SomeAnalyzerFaults
           /\ calls = Analyzers /\ calls' = calls
           /\ pc' = "saved"
           /\ analysis_json' = <<[total_items_analyzed |-> Len(items),
                                  cross_platform_gaps  |-> gaps,
                                  velocity_leaders     |-> velocity_items,
                                  niche_opportunities  |-> niches,
                                  bridge_topics        |-> bridges,
                                  linguistic_voids     |-> voids,
                                  personal_relevance   |-> relevant]>>]_vars

\* the velocity scorer has faulted on an archived item after the gap
\* detector returned; the earlier analysis.json is still there
C17_Witness ==
  /\ pc = "failed"
  /\ calls = <<"gaps", "velocity">>
  /\ items # <<>>
  /\ analysis_json = <<EarlierAnalysis>>

TitleEmptyOrAbsent(it) == "title" \notin DOMAIN it \/ it.title = <<>>

\* C20: keyword extraction over an item whose title is empty or missing
\* degrades to the empty keyword set rather than faulting: no analyzer (nor
\* the history scan of calculate_velocity) raises when a current or
\* historical item has an empty or absent title.
C20_TitlesDegrade ==
  (\/ \E i \in 1..Len(items) : TitleEmptyOrAbsent(items[i])
   \/ \E h \in 1..Len(history) :
         \E i \in 1..Len(history[h].all_items) : TitleEmptyOrAbsent(history[h].all_items[i]))
  => pc # "failed"

(***************************************************************************)
(* The keyword extractor on its own (analyze.py, _extract_keywords)        *)
(*                                                                         *)
(* texts holds a text, its normal form and a variant of the text: the same *)
(* words, in another letter case, apart by other punctuation.              *)
(***************************************************************************)
MaxWords == 2

\* a capitalised word, a stop word, a short word, a word with a digit
TextWords == {<<"C","a","t">>, <<"t","h","e">>, <<"a","b">>, <<"a","1","b">>, <<"d","o","g">>}

\* what stands between two words: white space or punctuation
Separators == {<<" ">>, <<"-">>, <<"_">>, <<"!",","," ">>}

\* what stands around the words
Paddings == {<<<<>>, <<>>>>, <<<<" ">>, <<>>>>, <<<<"(">>, <<")"," ">>>>}

StrUpper(s) == [i \in 1..Len(s) |-> IF Lower(s[i]) = s[i] /\ IsWord(s[i]) /\ s[i] # "_"
                                      /\ ord(s[i]) >= 97
                                    THEN chr(ord(s[i]) - 32) ELSE s[i]]

TextOf(words, sep, pad) == pad[1] \o Join(sep, words) \o pad[2]

InitKeywords ==
  /\ \E words \in SeqsUpTo(TextWords, MaxWords), sep \in Separators, pad \in Paddings,
        other_sep \in Separators \ {<<" ">>}, other_pad \in Paddings, upper \in BOOLEAN :
        LET text == TextOf(words, sep, pad)
            variant == TextOf(words, other_sep, other_pad)
        IN  texts = <<text, _normalize(text), IF upper THEN StrUpper(variant) ELSE variant>>
  /\ keywords = <<>>
  /\ candidates = <<>>
  /\ IoIdle
  /\ pc = "extract"
  /\ items = <<>>
  /\ history = <<>>
  /\ gaps = <<>>
  /\ velocity_items = <<>>
  /\ niches = <<>>
  /\ bridges = <<>>
  /\ voids = <<>>
  /\ expansions = <<>>
  /\ relevant = <<>>
  /\ interest_tags = INTEREST_TAGS
  /\ calls = <<>>
  /\ analysis_json = <<>>

ExtractKeywords ==
  /\ pc = "extract"
  /\ keywords' = [i \in 1..Len(texts) |-> _extract_keywords(texts[i])]
  /\ pc' = "extracted"
  /\ UNCHANGED <<items, history, gaps, velocity_items, niches, bridges,
                 voids, expansions, relevant, interest_tags, calls, analysis_json, texts, candidates, io_state>>

NextKeywords == ExtractKeywords

SpecKeywords == InitKeywords /\ [][NextKeywords]_vars

(***************************************************************************)
(* Claims about the keyword extractor                                      *)
(***************************************************************************)
Blank(text) == \A i \in 1..Len(text) : text[i] = " "

\* C18: for all texts t, _extract_keywords(t) == _extract_keywords(_normalize(t)),
\* and two texts that differ only in letter case or in which punctuation
\* characters separate their words yield the same keyword set;
\* _extract_keywords of the empty string or of a whitespace-only string is
\* the empty set.
C18_Determinism ==
  pc = "extracted" =>
    /\ texts[2] = _normalize(texts[1]) => keywords[1] = keywords[2]
    /\ keywords[1] = keywords[3]
    /\ Blank(texts[1]) => keywords[1] = {}

Alphanumeric(c) ==
  \/ (ord(c) >= 48 /\ ord(c) <= 57)
  \/ (ord(c) >= 97 /\ ord(c) <= 122)

\* C19: for all texts t, every element of _extract_keywords(t) is a
\* lowercase token of length greater than 2 that is not in the stop-word set
\* and consists only of alphanumeric characters.
C19_KeywordShape ==
  pc = "extracted" =>
    \A n \in 1..Len(keywords) :
       \A k \in keywords[n] :
          /\ Len(k) > 2
          /\ k \notin stop_words
          /\ \A i \in 1..Len(k) : Alphanumeric(k[i])

(***************************************************************************)
(* The six analyzers as operations on one batch, in any order              *)
(* (analyze.py, lines 80-455)                                              *)
(***************************************************************************)
\* the list an analyzer was given, as the call leaves it: no analyzer
\* assigns to, sorts, appends to or deletes from items or an item; the lists
\* they sort (gaps, velocity_items, niches, bridges, voids, relevant) are
\* lists they built, and the records of line 156 are copies ({**item, ...})
ItemsAfter_SortedInPlace(n, its) ==
  IF n = 2 THEN [i \in 1..Len(its) |-> its[Len(its) + 1 - i]] ELSE its

ItemsAfter(n, its) == its

\* history is read by calculate_velocity only (history[1:], scrape.get)
HistoryAfter(n, hist) == hist

MaxOrderItems == 3

\* a hackernews item, then reddit items on the same words, every third a
\* youtube item
OrderItem(i) == IF i = 1 THEN i_indie ELSE IF i % 3 = 1 THEN i_cooking ELSE i_indie_low

InitOrder ==
  /\ \E m \in 0..MaxOrderItems : items = [i \in 1..m |-> OrderItem(i)]
  /\ history \in {<<>>, <<Snapshot(<<i_indie>>), Snapshot(<<i_indie, i_cooking>>)>>}
  /\ pc = "analyzers"
  /\ gaps = <<>>
  /\ velocity_items = <<>>
  /\ niches = <<>>
  /\ bridges = <<>>
  /\ voids = <<>>
  /\ expansions = <<>>
  /\ relevant = <<>>
  /\ interest_tags = INTEREST_TAGS
  /\ calls = <<>>
  /\ analysis_json = <<>>
  /\ texts = <<>>
  /\ keywords = <<>>
  /\ candidates = <<>>
  /\ IoIdle

\* one of the analyzers that has not run yet is called on the batch
AnyAnalyzer ==
  /\ pc = "analyzers"
  /\ \E n \in 1..Len(Analyzers) :
        /\ Analyzers[n] \notin Range(calls)
        /\ calls' = Append(calls, Analyzers[n])
        /\ \E result \in Returns(n, items, history, KeywordSets(items)) :
              /\ gaps' = IF n = 1 THEN result ELSE gaps
              /\ velocity_items' = IF n = 2 THEN result ELSE velocity_items
              /\ niches' = IF n = 3 THEN result ELSE niches
              /\ bridges' = IF n = 4 THEN result ELSE bridges
              /\ expansions' = IF n = 5 THEN result ELSE expansions
              /\ voids' = IF n = 5 THEN ReturnedVoids(result) ELSE voids
              /\ relevant' = IF n = 6 THEN result ELSE relevant
        /\ items' = ItemsAfter(n, items)
        /\ history' = HistoryAfter(n, history)
  /\ UNCHANGED <<pc, interest_tags, analysis_json, texts, keywords, candidates, io_state>>

NextOrder == AnyAnalyzer

SpecOrder == InitOrder /\ [][NextOrder]_vars

(***************************************************************************)
(* Claims about the analyzers' inputs                                      *)
(***************************************************************************)
ResultOf(n) ==
  CASE n = 1 -> gaps
    [] n = 2 -> velocity_items
    [] n = 3 -> niches
    [] n = 4 -> bridges
    [] n = 5 -> expansions
    [] n = 6 -> relevant

RankTopK(n) ==
  CASE n = 1 -> GapsTopK
    [] n = 2 -> VelocityTopK
    [] n = 3 -> NichesTopK
    [] n = 4 -> BridgesTopK
    [] n = 5 -> VoidsTopK
    [] n = 6 -> RelevantTopK

MaxRankItems == 2

\* up to this many keys, every iteration order of a set or dict is tried
MaxOrdered == 3

\* the words k01, k02, ... and a01, b01, c01, ...
Numbered(letter, i) == <<letter, chr(48 + (i \div 10)), chr(48 + (i % 10))>>

\* batches that give an analyzer more candidates than it returns, with equal
\* and with different sort keys; every title but the void detector's and the
\* relevance scorer's is one keyword
GapCrowd ==
  ForEach([i \in 1..(GapsTopK + 1) |->
             <<make_item(s_reddit, Numbered("k", i), 10, {}),
               make_item(s_reddit, Numbered("k", i), 10, {}),
               make_item(s_hackernews, Numbered("k", i), 10, {})>>
             \o (IF i % 3 = 0 THEN <<make_item(s_hackernews, Numbered("k", i), 10, {})>> ELSE <<>>)],
          1, GapsTopK + 1)

VelocityCrowd ==
  [i \in 1..(VelocityTopK + 2) |-> make_item(s_reddit, Numbered("k", i \div 2), 10 * (i % 3), {})]

NicheCrowd ==
  [i \in 1..(NichesTopK + 2) |-> make_item(s_google_trends, Numbered("k", i), 10 * (i % 3), {})]

BridgeCrowd ==
  ForEach([i \in 1..(BridgesTopK + 1) |->
             <<make_item(s_hackernews, Numbered("k", i), 10 * (i % 3), {}),
               make_item(s_google_trends, Numbered("k", i), 10, {})>>],
          1, BridgesTopK + 1)

VoidCrowd ==
  ForEach([i \in 1..(3 * (VoidsTopK + 1)) |->
             LET c == 1 + ((i - 1) \div 3)
                 it == make_item(s_reddit,
                                 Numbered("a", c) \o <<" ">> \o Numbered("b", c) \o <<" ">> \o Numbered("c", c),
                                 10, {})
             IN  IF c % 3 = 0 /\ i % 3 = 0 THEN <<it, it>> ELSE <<it>>],
          1, 3 * (VoidsTopK + 1))

RelevanceCrowd ==
  [i \in 1..(RelevantTopK + 2) |->
     make_item(s_reddit,
               IF i % 4 = 0 THEN <<"i","n","d","i","e"," ","t","o","o","l","s"," ">> \o Numbered("k", i)
               ELSE <<"i","n","d","i","e"," ">> \o Numbered("k", i),
               10 * (i % 3), {})]

Crowd(n) ==
  CASE n = 1 -> GapCrowd
    [] n = 2 -> VelocityCrowd
    [] n = 3 -> NicheCrowd
    [] n = 4 -> BridgeCrowd
    [] n = 5 -> VoidCrowd
    [] n = 6 -> RelevanceCrowd

RankItems ==
  {i_indie, i_indie_low, i_tools,
   make_item(s_google_trends, t_fasting, 5, {}),
   make_item(s_google_trends, t_auto_fasting, 5, {})}

\* the keywords of a batch in the order of the first item that holds them
\* (the keywords of one item in alphabetical order), among the items in held
FirstSeen(sets, held) ==
  InsertionOrder(ForEach([i \in 1..Len(sets) |-> IF i \in held THEN SortedStrs(sets[i]) ELSE <<>>],
                         1, Len(sets)))

Reversed(s) == [i \in 1..Len(s) |-> s[Len(s) + 1 - i]]

\* the iteration orders and rounding outcomes a call of the n-th analyzer is
\* tried with: all of them on a batch of few keywords, on a larger batch the
\* order of first occurrence and, where the code iterates a set, its reverse
RankChoices(n, its, hist, sets) ==
  LET all  == 1..Len(its)
      few  == Cardinality(UNION {sets[i] : i \in all}) <= MaxOrdered
      none == [order |-> <<>>, above |-> {}, ties |-> {}, related |-> <<>>]
  IN  CASE n = 1 ->
             LET keys == PresenceKeywords(its)
                 seen == SelectSeq(FirstSeen(sets, all), LAMBDA kw : kw \in keys)
             IN  {[none EXCEPT !.order = o] :
                    o \in IF few THEN Orders(keys) ELSE {seen, Reversed(seen)}}
        [] n = 2 ->
             IF hist = <<>> THEN {none}
             ELSE LET old == KeywordSets(AllItems(HistoryTail(hist)))
                  IN  {[none EXCEPT !.above = a, !.ties = t] :
                         a \in SUBSET InexactAtThreshold(its, sets, old, num_historical(hist)),
                         t \in SUBSET CombinedTies(its, sets, old, num_historical(hist))}
        [] n = 3 ->
             IF few
             THEN {[none EXCEPT !.order = o, !.ties = t, !.related = r] :
                     o \in SignalOrders(its, sets),
                     t \in SUBSET TieKeywords(its, sets),
                     r \in RelatedOrders(its, sets)}
             ELSE LET held == {i \in all : its[i].source = s_google_trends}
                      titles(kw) ==
                        InsertionOrder(ForEach([i \in all |->
                                                  IF i \in SignalHolders(its, sets, kw)
                                                  THEN <<its[i].title>> ELSE <<>>],
                                               1, Len(its)))
                  IN  {[none EXCEPT !.order = FirstSeen(sets, held),
                                    !.ties = t,
                                    !.related = [kw \in SignalKeywords(its, sets) |-> titles(kw)]] :
                         t \in {{}, TieKeywords(its, sets)}}
        [] n = 4 ->
             {[none EXCEPT !.order = o] :
                o \in IF few THEN BridgeOrders(sets, Communities(its))
                      ELSE {FirstSeen(sets, CommunityItems(Communities(its)))}}
        [] n = 5 -> {none}
        [] n = 6 -> {none}

\* the list the n-th analyzer sorts
Candidates(n, its, hist, sets, c) ==
  CASE n = 1 -> GapCandidates(its, c.order)
    [] n = 2 -> VelocityCandidates(its, hist, c.above, c.ties)
    [] n = 3 -> NicheCandidates(its, c.order, c.ties, c.related)
    [] n = 4 -> BridgesInOrder(its, sets, Communities(its), c.order)
    [] n = 5 -> VoidCandidates(VoidExpansions(its, sets))
    [] n = 6 -> RelevanceCandidates(its, sets, interest_tags)

\* the list the n-th analyzer returns
Returned(n, its, hist, sets, c) ==
  CASE n = 1 -> detect_cross_platform_gaps(its, c.order)
    [] n = 2 -> calculate_velocity(its, hist, c.above, c.ties)
    [] n = 3 -> find_niche_opportunities(its, c.order, c.ties, c.related)
    [] n = 4 -> detect_bridge_topics(its, c.order)
    [] n = 5 -> ReturnedVoids(VoidExpansions(its, sets))
    [] n = 6 -> score_personal_relevance(its, sets, interest_tags)

InitRanking ==
  /\ \E n \in 1..Len(Analyzers) :
        /\ pc = Analyzers[n]
        /\ items \in SeqsUpTo(RankItems, MaxRankItems) \cup {Crowd(n)}
  /\ history \in {<<>>, <<Snapshot(<<>>), Snapshot(<<i_indie>>)>>}
  /\ gaps = <<>>
  /\ velocity_items = <<>>
  /\ niches = <<>>
  /\ bridges = <<>>
  /\ voids = <<>>
  /\ expansions = <<>>
  /\ relevant = <<>>
  /\ interest_tags = INTEREST_TAGS
  /\ calls = <<>>
  /\ analysis_json = <<>>
  /\ texts = <<>>
  /\ keywords = <<>>
  /\ candidates = <<>>
  /\ IoIdle

\* one analyzer runs to its return statement
RankCandidates ==
  /\ \E n \in 1..Len(Analyzers) :
        /\ pc = Analyzers[n]
        /\ calls' = <<Analyzers[n]>>
        /\ \E c \in RankChoices(n, items, history, KeywordSets(items)) :
              /\ candidates' = Candidates(n, items, history, KeywordSets(items), c)
              /\ \E result \in {Returned(n, items, history, KeywordSets(items), c)} :
                    /\ gaps' = IF n = 1 THEN result ELSE gaps
                    /\ velocity_items' = IF n = 2 THEN result ELSE velocity_items
                    /\ niches' = IF n = 3 THEN result ELSE niches
                    /\ bridges' = IF n = 4 THEN result ELSE bridges
                    /\ voids' = IF n = 5 THEN result ELSE voids
                    /\ relevant' = IF n = 6 THEN result ELSE relevant
  /\ pc' = "ranked"
  /\ UNCHANGED <<items, history, expansions, interest_tags, analysis_json, texts, keywords, io_state>>

NextRanking == RankCandidates

SpecRanking == InitRanking /\ [][NextRanking]_vars

(***************************************************************************)
(* Claims about the ranked lists                                           *)
(***************************************************************************)
\* the list the analyzer named returned
RankedList(name) ==
  CASE name = "gaps" -> gaps
    [] name = "velocity" -> velocity_items
    [] name = "niches" -> niches
    [] name = "bridges" -> bridges
    [] name = "voids" -> voids
    [] name = "relevance" -> relevant

\* the ranking key of a returned record
RankingKey(name, r) ==
  CASE name = "gaps" -> <<r.opportunity_score>>
    [] name = "velocity" -> IF r.velocity_label = "new" THEN FloatKey(r.velocity) ELSE <<r.velocity>>
    [] name = "niches" -> <<r.niche_score>>
    [] name = "bridges" -> <<r.bridge_score>>
    [] name = "voids" -> <<r.void_score>>
    [] name = "relevance" -> <<r.relevance, r.score>>

RankLimit(name) ==
  CASE name = "gaps" -> 50
    [] name = "velocity" -> 50
    [] name = "niches" -> 40
    [] name = "bridges" -> 40
    [] name = "voids" -> 20
    [] name = "relevance" -> 30

KeyGreater(a, b) == ~LexLeq(a, b)

\* the place in candidates of the record returned at place r
PlaceOf(r) ==
  CHOOSE i \in 1..Len(candidates) :
     r = 1 + Cardinality({j \in 1..Len(candidates) : KeyGreater(candidates[j][1], candidates[i][1])})
           + Cardinality({j \in 1..(i - 1) : candidates[j][1] = candidates[i][1]})

TopKPrefix(name) ==
  LET out  == RankedList(name)
      kept == {PlaceOf(r) : r \in 1..Len(out)}
  IN  /\ Len(out) <= RankLimit(name)
      /\ Len(out) = Len(candidates) \/ Len(out) = RankLimit(name)
      /\ Cardinality(kept) = Len(out)
      /\ \A r \in 1..Len(out) :
            /\ out[r] = candidates[PlaceOf(r)][2]
            /\ RankingKey(name, out[r]) = candidates[PlaceOf(r)][1]
      /\ \A r \in 1..(Len(out) - 1) :
            /\ ~KeyGreater(RankingKey(name, out[r + 1]), RankingKey(name, out[r]))
            /\ RankingKey(name, out[r + 1]) = RankingKey(name, out[r]) => PlaceOf(r) < PlaceOf(r + 1)
      /\ \A i \in (1..Len(candidates)) \ kept :
            \A r \in 1..Len(out) :
               /\ ~KeyGreater(candidates[i][1], RankingKey(name, out[r]))
               /\ candidates[i][1] = RankingKey(name, out[r]) => PlaceOf(r) < i

\* C22: each of the six ranked lists is the top-K prefix of its candidates:
\* it is in non-increasing order of its ranking key, holds at most 50, 50,
\* 40, 40, 20 and 30 records (all candidates when there are no more), no
\* candidate left out has a key greater than a candidate kept, and candidates
\* of equal keys keep the order they had before the sort.
C22_TopKPrefix == pc = "ranked" => TopKPrefix(calls[1])

\* every list has been cut: an analyzer has returned fewer records than it
\* had candidates, some of them of equal keys, and left out a candidate with
\* the key of one it kept
Cut(name) ==
  /\ pc = "ranked"
  /\ calls = <<name>>
  /\ Len(RankedList(name)) = RankLimit(name)
  /\ Len(candidates) > RankLimit(name)
  /\ \E r \in 1..(RankLimit(name) - 1) :
        RankingKey(name, RankedList(name)[r]) = RankingKey(name, RankedList(name)[r + 1])
  /\ \E r \in 1..(RankLimit(name) - 1) :
        KeyGreater(RankingKey(name, RankedList(name)[r]), RankingKey(name, RankedList(name)[r + 1]))

C22_Witness == Cut("gaps")

(***************************************************************************)
(* 9. The scrape run (scrape.py, run_all_scrapers)                         *)
(*                                                                         *)
(* One step is one iteration of the loop over the scrapers: the call of    *)
(* the scraper, which returns a list of items or raises, and the           *)
(* bookkeeping of its outcome.  The five scrapers return lists (each       *)
(* scrape() builds and returns one), so len(items) and extend(items) agree *)
(* and cannot fail.  The timestamp of results is not carried.              *)
(***************************************************************************)
\* lines 25-31
scrapers == <<s_youtube, s_reddit, s_google_trends, s_hackernews, s_twitter>>

s_ok == <<"o","k">>

MaxFetched == 2

\* the messages str(e) of the exceptions a scraper raises: none, a short
\* one, one of 201 characters
Messages ==
  {<<>>, <<"t","i","m","e","d"," ","o","u","t">>, Rep(201, "x")}

\* what a call of the scraper returns or raises
Outcomes(name) ==
  {[raised |-> FALSE, name |-> name,
    items |-> [i \in 1..m |-> make_item(name, Numbered("t", i), 100 * i, {})]] : m \in 0..MaxFetched}
  \cup {[raised |-> TRUE, name |-> name, message |-> e] : e \in Messages}

\* d[key] = value on a dict
Put(d, key, value) ==
  [k \in DOMAIN d \cup {key} |-> IF k = key THEN value ELSE d[k]]

\* line 48: f"error: {str(e)[:200]}"
ErrorStatus(e) == <<"e","r","r","o","r",":"," ">> \o Take(e, 200)

\* lines 38-43: the scraper returned
Succeeded_CountsAll(res, name, its) ==
  [sources |-> Put(res.sources, name, [count |-> Len(res.all_items \o its), status |-> s_ok]),
   all_items |-> res.all_items \o its]

Succeeded(res, name, its) ==
  [sources |-> Put(res.sources, name, [count |-> Len(its), status |-> s_ok]),
   all_items |-> res.all_items \o its]

\* lines 44-49: the scraper raised
Failed_Unrecorded(res, name, e) == res

Failed(res, name, e) ==
  [sources |-> Put(res.sources, name, [count |-> 0, status |-> ErrorStatus(e)]),
   all_items |-> res.all_items]

\* lines 19-31
InitScrape ==
  /\ items = <<>>
  /\ history = <<>>
  /\ pc = "run_all_scrapers"
  /\ gaps = <<>>
  /\ velocity_items = <<>>
  /\ niches = <<>>
  /\ bridges = <<>>
  /\ LaterIdle

\* the store is not touched by the scrape run
store_state == <<data_dir, now, saved, max_files, archives, get_state>>

\* lines 33-49: one iteration of the loop
RunScraper ==
  /\ pc = "run_all_scrapers"
  /\ Len(fetched) < Len(scrapers)
  /\ \E out \in Outcomes(scrapers[Len(fetched) + 1]) :
        /\ fetched' = Append(fetched, out)
        /\ results' = IF out.raised
                      THEN Failed(results, out.name, out.message)
                      ELSE Succeeded(results, out.name, out.items)
  /\ UNCHANGED <<items, history, pc, gaps, velocity_items, niches, bridges, analysis_state, store_state>>

\* line 51
ReturnResults ==
  /\ pc = "run_all_scrapers"
  /\ Len(fetched) = Len(scrapers)
  /\ pc' = "returned"
  /\ UNCHANGED <<items, history, gaps, velocity_items, niches, bridges, analysis_state, io_state>>

NextScrape == RunScraper \/ ReturnResults

SpecScrape == InitScrape /\ [][NextScrape]_vars

(***************************************************************************)
(* Claims about run_all_scrapers                                           *)
(***************************************************************************)
\* the items of the scrapers that returned, in the order of the calls
Gathered ==
  ForEach([i \in 1..Len(fetched) |-> IF fetched[i].raised THEN <<>> ELSE fetched[i].items],
          1, Len(fetched))

\* C24: whichever of the five scrapers raise, the scrapers are called in the
\* order youtube, reddit, google_trends, hackernews, twitter, the run ends
\* only by returning after all five were called, every source is then in
\* results.sources (status "ok" with the number of its items, or a status
\* "error: ..." with count 0), and all_items is the concatenation, in that
\* order, of the items of the scrapers that returned
C24_FailuresIsolated ==
  /\ \A i \in 1..Len(fetched) : fetched[i].name = scrapers[i]
  /\ pc \in {"run_all_scrapers", "returned"}
  /\ pc = "returned" =>
       /\ Len(fetched) = 5
       /\ DOMAIN results.sources = Range(scrapers)
       /\ \A i \in 1..5 :
             LET rec == results.sources[scrapers[i]]
             IN  IF fetched[i].raised
                 THEN rec.count = 0 /\ rec.status # s_ok /\ Take(rec.status, 5) = Take(ErrorStatus(<<>>), 5)
                 ELSE rec.count = Len(fetched[i].items) /\ rec.status = s_ok
       /\ results.all_items = Gathered

\* youtube and hackernews raised, the other three returned items
C24_Witness ==
  /\ pc = "returned"
  /\ fetched[1].raised
  /\ fetched[4].raised
  /\ \A i \in {2, 3, 5} : ~fetched[i].raised /\ fetched[i].items # <<>>
  /\ Len(results.all_items) = 5
  /\ Len(results.sources[s_youtube].status) = 207

\* the sum of the counts recorded so far
CountSum ==
  SumRange([i \in 1..Len(fetched) |->
              IF fetched[i].name \in DOMAIN results.sources
              THEN results.sources[fetched[i].name].count ELSE 0], 1, Len(fetched))

ArchivesKept == 120

MaxSaves == 2

MaxLoad == 2

f_latest_scrape == <<"l","a","t","e","s","t","_","s","c","r","a","p","e",".","j","s","o","n">>

f_analysis == <<"a","n","a","l","y","s","i","s",".","j","s","o","n">>

p_scrape == <<"s","c","r","a","p","e","_">>

x_json == <<".","j","s","o","n">>

\* str.startswith, str.endswith
startswith(s, p) == Len(s) >= Len(p) /\ SubSeq(s, 1, Len(p)) = p

endswith(s, p) == Len(s) >= Len(p) /\ SubSeq(s, Len(s) - Len(p) + 1, Len(s)) = p

\* the days of the months of 2026 and 2027
MonthDays == <<31, 28, 31, 30, 31, 30, 31, 31, 30, 31, 30, 31>>

\* month and day of the d-th day (from 0) of a year, counted from month m
RECURSIVE MonthDay(_, _)
MonthDay(d, m) ==
  IF d < MonthDays[m] THEN <<m, d + 1>> ELSE MonthDay(d - MonthDays[m], m + 1)

\* %m, %d, %H, %M and %Y
Digits2(n) == <<chr(48 + (n \div 10)), chr(48 + (n % 10))>>

Digits4(n) == Digits2(n \div 100) \o Digits2(n % 100)

\* scrape.py line 63: strftime("%Y-%m-%d_%H%M") of the clock reading t
strftime(t) ==
  LET day == t \div 1440
      md  == MonthDay(day % 365, 1)
  IN  Digits4(2026 + (day \div 365)) \o <<"-">> \o Digits2(md[1]) \o <<"-">> \o Digits2(md[2])
        \o <<"_">> \o Digits2((t % 1440) \div 60) \o Digits2(t % 60)

\* scrape.py line 64
ArchiveName(ts) == p_scrape \o ts \o x_json

\* the batch scraped at clock reading t
Batch(t, its) == [timestamp |-> strftime(t), all_items |-> its]

\* os.listdir(DATA_DIR)
listdir(dir) == [i \in 1..Len(dir) |-> dir[i].name]

\* scrape.py lines 75-78, analyze.py lines 30-33: the names listed, before
\* they are sorted
Archives(dir) ==
  SelectSeq(listdir(dir), LAMBDA f : startswith(f, p_scrape) /\ endswith(f, x_json))

\* open(path, "w") and json.dump: the file is created or replaced
Write(dir, name, content) ==
  IF \E i \in 1..Len(dir) : dir[i].name = name
  THEN [i \in 1..Len(dir) |-> IF dir[i].name = name THEN [name |-> name, content |-> content]
                              ELSE dir[i]]
  ELSE Append(dir, [name |-> name, content |-> content])

\* the content of a file that exists
Read(dir, name) == dir[CHOOSE i \in 1..Len(dir) : dir[i].name = name].content

Lesser(a, b) == IF StrLess(b, a) THEN b ELSE a

Greater(a, b) == IF StrLess(a, b) THEN b ELSE a

\* min and max of names[lo..hi]
RECURSIVE MinName(_, _, _)
MinName(names, lo, hi) ==
  IF lo = hi THEN names[lo]
  ELSE Lesser(MinName(names, lo, (lo + hi) \div 2), MinName(names, (lo + hi) \div 2 + 1, hi))

RECURSIVE MaxName(_, _, _)
MaxName(names, lo, hi) ==
  IF lo = hi THEN names[lo]
  ELSE Greater(MaxName(names, lo, (lo + hi) \div 2), MaxName(names, (lo + hi) \div 2 + 1, hi))

\* sorted(names)[:k] for k >= 0 and names that differ
RECURSIVE Oldest(_, _)
Oldest(names, k) ==
  IF k <= 0 \/ names = <<>> THEN <<>>
  ELSE LET m == MinName(names, 1, Len(names))
       IN  <<m>> \o Oldest(SelectSeq(names, LAMBDA f : f # m), k - 1)

\* sorted(names, reverse=True)[:k] for k >= 0 and names that differ
RECURSIVE Newest(_, _)
Newest(names, k) ==
  IF k <= 0 \/ names = <<>> THEN <<>>
  ELSE LET m == MaxName(names, 1, Len(names))
       IN  <<m>> \o Newest(SelectSeq(names, LAMBDA f : f # m), k - 1)

\* scrape.py lines 73-82
_prune_archives_KeepsAll(dir, max) == dir

_prune_archives(dir, max) ==
  LET names == Archives(dir)
      old == IF Len(names) > max THEN Range(Oldest(names, Len(names) - max)) ELSE {}
  IN  SelectSeq(dir, LAMBDA file : file.name \notin old)

\* scrape.py lines 54-70, at clock reading t
save_results(dir, res, t) ==
  _prune_archives(Write(Write(dir, f_latest_scrape, <<res>>), ArchiveName(strftime(t)), <<res>>),
                  ArchivesKept)

\* analyze.py lines 30-33
Chosen(dir, max) == Newest(Archives(dir), max)

\* analyze.py lines 28-43
load_historical_scrapes(dir, max) ==
  LET names == Chosen(dir, max)
  IN  ForEach([i \in 1..Len(names) |-> Read(dir, names[i])], 1, Len(names))

\* a directory after n hourly runs that ended before clock reading t, the
\* archive of the bad-th last run unreadable, listed latest run first
Stocked(n, t, bad) ==
  <<[name |-> f_latest_scrape, content |-> <<Batch(t - 60, <<>>)>>],
    [name |-> f_analysis, content |-> <<>>]>>
  \o [k \in 1..n |-> [name |-> ArchiveName(strftime(t - 60 * k)),
                      content |-> IF k = bad THEN <<>> ELSE <<Batch(t - 60 * k, <<>>)>>]]

\* 2026-12-31 23:00 and 2026-02-01 02:00
YearEnd == 364 * 1440 + 23 * 60

MonthStart == 31 * 1440 + 2 * 60

\* an empty directory, a full one and one that the next archive fills
StoreScenarios ==
  {<<<<>>, 0>>,
   <<Stocked(ArchivesKept, YearEnd, 1), YearEnd>>,
   <<Stocked(ArchivesKept - 1, MonthStart, 0), MonthStart>>}

\* the minutes between a scrape and its save
Elapsed == {0, 1, 60}

InitStore ==
  /\ items = <<>>
  /\ history = <<>>
  /\ pc = "store"
  /\ gaps = <<>>
  /\ velocity_items = <<>>
  /\ niches = <<>>
  /\ bridges = <<>>
  /\ AnalysisIdle
  /\ results = [sources |-> <<>>, all_items |-> <<>>]
  /\ fetched = <<>>
  /\ \E sc \in StoreScenarios : data_dir = sc[1] /\ now = sc[2]
  /\ saved = <<>>
  /\ max_files = 0
  /\ archives = <<>>
  /\ GetIdle

\* scrape.py lines 90-91: a batch scraped at the present clock reading is
\* saved dt minutes later
SaveResults ==
  /\ pc # "loaded"
  /\ Len(saved) < MaxSaves
  /\ \E dt \in Elapsed, its \in {<<>>, <<i_indie>>} :
        /\ now' = now + dt
        /\ saved' = Append(saved, Batch(now, its))
        /\ data_dir' = save_results(data_dir, Batch(now, its), now + dt)
  /\ pc' = "saved"
  /\ UNCHANGED <<items, history, gaps, velocity_items, niches, bridges, analysis_state,
                 results, fetched, max_files, archives, get_state>>

\* analyze.py line 472, with any max_files
LoadHistory ==
  /\ pc # "loaded"
  /\ \E n \in 0..MaxLoad :
        /\ max_files' = n
        /\ archives' = Chosen(data_dir, n)
        /\ history' = load_historical_scrapes(data_dir, n)
  /\ pc' = "loaded"
  /\ UNCHANGED <<items, gaps, velocity_items, niches, bridges, analysis_state,
                 results, fetched, data_dir, now, saved, get_state>>

NextStore == SaveResults \/ LoadHistory

SpecStore == InitStore /\ [][NextStore]_vars

(***************************************************************************)
(* Claims about the store                                                  *)
(***************************************************************************)
ArchiveNames(dir) == Range(Archives(dir))

\* C25: after every save_results, latest_scrape.json holds the batch of the
\* last call, an archive holds that same batch, at most 120 archives remain
\* and every archive a save removed has a smaller name than every archive it
\* kept; load_historical_scrapes(N) reads the min(N, number of archives)
\* archives of the largest names, largest first, and returns at most N
\* batches, those of the archives it could read, in that order
C25_StoreKeepsNewest ==
  /\ [](saved # <<>> =>
          /\ Read(data_dir, f_latest_scrape) = <<saved[Len(saved)]>>
          /\ \E f \in ArchiveNames(data_dir) : Read(data_dir, f) = <<saved[Len(saved)]>>
          /\ Len(Archives(data_dir)) <= ArchivesKept)
  /\ [](pc = "loaded" =>
          /\ Len(history) <= max_files
          /\ Len(archives) = IF Len(Archives(data_dir)) < max_files
                             THEN Len(Archives(data_dir)) ELSE max_files
          /\ \A i \in 1..Len(archives) : archives[i] \in ArchiveNames(data_dir)
          /\ \A i \in 1..(Len(archives) - 1) : StrLess(archives[i + 1], archives[i])
          /\ archives # <<>> =>
               \A f \in ArchiveNames(data_dir) \ Range(archives) : StrLess(f, archives[Len(archives)])
          /\ history = ForEach([i \in 1..Len(archives) |-> Read(data_dir, archives[i])],
                               1, Len(archives)))
  /\ [][\A old \in ArchiveNames(data_dir) \ ArchiveNames(data_dir') :
           \A kept \in ArchiveNames(data_dir') : StrLess(old, kept)]_vars

\* a save into a full directory, an hour after the scrape and in the next
\* year: the oldest archive is gone, and of the two newest archives that are
\* then loaded one cannot be read
C25_Witness ==
  /\ pc = "loaded"
  /\ Len(saved) = 1
  /\ max_files = 2
  /\ archives = <<ArchiveName(<<"2","0","2","7","-","0","1","-","0","1","_","0","0","0","0">>),
                  ArchiveName(<<"2","0","2","6","-","1","2","-","3","1","_","2","2","0","0">>)>>
  /\ history = <<saved[1]>>
  /\ Len(Archives(data_dir)) = ArchivesKept
  /\ ArchiveName(<<"2","0","2","6","-","1","2","-","2","6","_","2","3","0","0">>) \notin ArchiveNames(data_dir)
  /\ ArchiveName(<<"2","0","2","6","-","1","2","-","2","7","_","0","0","0","0">>) \in ArchiveNames(data_dir)

(***************************************************************************)
(* 11. The GET helper (scrapers/base.py, safe_get)                         *)
(*                                                                         *)
(* One step is one iteration of the loop: the request, what it meets and   *)
(* the sleep that follows.  A request meets a response with a status code, *)
(* an exception derived from requests.RequestException, or an exception    *)
(* that is not (the TypeError of a keyword argument Session.request does   *)
(* not take), which line 66 does not catch.                                *)
(***************************************************************************)
\* line 54: range(3)
Attempts == 3

\* what _session.get meets
Response(code) == [status_code |-> code, raised |-> ""]

Raised(exception) == [status_code |-> 0, raised |-> exception]

Replies ==
  {Response(code) : code \in {200, 429, 403, 404, 500, 503}}
  \cup {Raised(x) : x \in {"ConnectionError", "Timeout", "TypeError"}}

\* line 66: except requests.RequestException
RequestException(r) == r.raised \in {"ConnectionError", "Timeout"}

\* line 60
wait_Linear(a) == 2 * (a + 1)

wait(a) == Pow2(a + 1)

InitGet ==
  /\ items = <<>>
  /\ history = <<>>
  /\ pc = "safe_get"
  /\ gaps = <<>>
  /\ velocity_items = <<>>
  /\ niches = <<>>
  /\ bridges = <<>>
  /\ LaterIdle

\* lines 55-69: one attempt
Attempt ==
  /\ pc = "safe_get"
  /\ attempt < Attempts
  /\ \E r \in Replies :
        /\ responses' = Append(responses, r)
        /\ IF r.raised # ""
           THEN IF RequestException(r)
                THEN /\ slept' = Append(slept, IF attempt < 2 THEN 1 ELSE 0)
                     /\ attempt' = attempt + 1
                     /\ UNCHANGED <<pc, returned>>
                ELSE /\ pc' = "raised"
                     /\ UNCHANGED <<attempt, slept, returned>>
           ELSE IF r.status_code = 200
                THEN /\ pc' = "returned"
                     /\ returned' = <<r>>
                     /\ UNCHANGED <<attempt, slept>>
                ELSE IF r.status_code = 429
                     THEN /\ slept' = Append(slept, wait(attempt))
                          /\ attempt' = attempt + 1
                          /\ UNCHANGED <<pc, returned>>
                     ELSE /\ pc' = "returned"
                          /\ returned' = <<>>
                          /\ UNCHANGED <<attempt, slept>>
  /\ UNCHANGED <<items, history, gaps, velocity_items, niches, bridges, analysis_state,
                 results, fetched, data_dir, now, saved, max_files, archives>>

\* line 70
GiveUp ==
  /\ pc = "safe_get"
  /\ attempt = Attempts
  /\ pc' = "returned"
  /\ returned' = <<>>
  /\ UNCHANGED <<items, history, gaps, velocity_items, niches, bridges, analysis_state,
                 results, fetched, data_dir, now, saved, max_files, archives,
                 attempt, responses, slept>>

NextGet == Attempt \/ GiveUp

SpecGet == InitGet /\ [][NextGet]_vars

\* the loop runs on: a request ends with a response or an exception (each
\* carries a timeout) and a sleep ends
SpecGetFair == SpecGet /\ WF_vars(NextGet)

(***************************************************************************)
(* Claims about safe_get                                                   *)
(***************************************************************************)
\* the attempt met a 429 or a request exception
Retried(r) == r.status_code = 429 \/ r.raised \in {"ConnectionError", "Timeout"}

\* what the requests met are server responses and request exceptions
FromServer == \A i \in 1..Len(responses) : responses[i].raised \in {"", "ConnectionError", "Timeout"}

\* C26: whatever the server answers, safe_get ends after at most 3
\* requests; it returns the response exactly when a request met status 200
\* after only 429s and request exceptions; a status other than 200 and 429
\* makes it return None with no further request; after a 429 on attempt a
\* (from 0) it sleeps 2^(a+1) seconds; and after three requests without a
\* 200 it returns None and does not raise
C26_BoundedRetries ==
  /\ [](/\ Len(responses) <= 3
        /\ \A i \in 1..Len(responses) :
              /\ \A j \in 1..(i - 1) : Retried(responses[j])
              /\ responses[i].status_code = 429 => slept[i] = <<2, 4, 8>>[i]
              /\ ~Retried(responses[i]) => i = Len(responses) /\ pc # "safe_get"
        /\ FromServer /\ pc # "safe_get" =>
              /\ pc = "returned"
              /\ returned # <<>> <=> responses # <<>> /\ responses[Len(responses)].status_code = 200
              /\ returned # <<>> => returned = <<responses[Len(responses)]>>
              /\ returned = <<>> =>
                    \/ responses[Len(responses)].status_code \notin {0, 200, 429}
                    \/ Len(responses) = 3 /\ Retried(responses[3])
        /\ pc = "safe_get" /\ Len(responses) = 3 => ENABLED GiveUp)
  /\ <>(pc # "safe_get")

\* a time-out, a 429 and a 200: the response of the third request is returned
\* after sleeps of 1 and 4 seconds
C26_Witness ==
  /\ pc = "returned"
  /\ Len(responses) = 3
  /\ responses[1].raised = "Timeout"
  /\ responses[2].status_code = 429
  /\ returned = <<Response(200)>>
  /\ slept = <<1, 4>>

====
